---------------------------- MODULE Spec2Model ----------------------------
(***************************************************************************)
(* Evidence-gated recommendation pipeline of the planning engine:          *)
(*   - the evidence gate          (policies/policy_evidence.py)            *)
(*   - the decision entry points  (report/judgment.py,                     *)
(*                                 judgement/weighing_balance.py,          *)
(*                                 report/report_entrypoint.py)            *)
(*   - the reranker/diversifier   (scripts/report_rerank.py)               *)
(*   - the weight tuners          (scripts/auto_tune_weights.py,           *)
(*                                 scripts/update_weights_from_feedback.py)*)
(*                                                                         *)
(* Conventions.  A score is an integer number of tenths (4.5 is 45); a     *)
(* weight or a confidence is an integer number of hundredths (0.25 is 25,  *)
(* 1.50 is 150).  A text is the set of the vocabulary phrases that occur   *)
(* in its lower-cased form, so that Python's `w in t` is membership.  An   *)
(* optional value is a set with at most one element ({} is "absent").      *)
(***************************************************************************)
EXTENDS Integers, Sequences, FiniteSets, TLC

VARIABLES
    \* ---- decision pipeline (one proposal evaluation) ----
    dpc,        \* "start" | "retrieved" | "gated" | "decided"
    block,      \* the policy block in hand (provider output or gate output)
    gate_in,    \* {the arguments of the gate call that made block}, else {}
    call,       \* the entry point called and its arguments
    outcome     \* what the entry point returned

dvars == <<dpc, block, gate_in, call, outcome>>

VARIABLES
    \* ---- one use of the reranker, and its re-application to its own result ----
    rpc,        \* "start" | "input" | "once" | "twice"
    rr_in,      \* the arguments: [citations, evidence, weights]
    rr_out,     \* rerank_policy(rr_in): [citations, evidence], and the caller's
                \* arguments as the call left them
    rr_again    \* rerank_policy applied to rr_out under the same weights

rvars == <<rpc, rr_in, rr_out, rr_again>>

VARIABLES
    \* ---- the weights store, the logs and the tuner invocations ----
    weights_file,   \* config/relevance_weights.json: {} (no file) or {its JSON object}
    feedback_log,   \* logs/feedback/feedback.jsonl: the records, oldest first
    usage_log,      \* logs/feedback/usage_log.jsonl: the rows, oldest first
    tpc,            \* per invocation slot: "idle" | "pr_loaded" | "pr_written" | "bt_loaded"
    tlocal,         \* per invocation slot: what the invocation holds in memory
    started,        \* number of tuner invocations started so far
    serial          \* the store as the same invocations would have left it had each
                    \* read and written the store in one step (in write order)

tvars == <<weights_file, feedback_log, usage_log, tpc, tlocal, started, serial>>

VARIABLES
    \* ---- one rendered report: scored, and the per-run tuner run on its score ----
    qpc,        \* "start" | "scored" | "tuned"
    q_payload,  \* the payload JSON handed to the quality scorer
    q_report,   \* what the scorer computed and printed, or that it raised
    q_tuned     \* the per-run tuner's flags for that score text, and the weights it wrote

qvars == <<qpc, q_payload, q_report, q_tuned>>

VARIABLES
    \* ---- one run of a component that loads the weights store ----
    lpc,        \* "start" | "done"
    l_run,      \* the component run, the store it found, and its other inputs
    l_out       \* how the run ended: what it printed, the weights it used, the store it left

lvars == <<lpc, l_run, l_out>>

VARIABLES
    \* ---- the weights file under a run of fully triggered tuner runs ----
    c_store     \* {} (no file) or {the JSON object in the file}

cvars == <<c_store>>

(***************************************************************************)
(* Bounds of the model.                                                    *)
(***************************************************************************)
MaxResults == 3     \* longest policy result list the provider returns
MaxCases   == 1     \* longest precedent result list
MaxEvidence  == 3   \* longest evidence list handed to the reranker
MaxCitations == 2   \* longest citation list handed to the reranker
MaxRuns      == 2   \* tuner invocations in one behaviour
MaxFeedback  == 3   \* records in the feedback log
MaxScored    == 2   \* longest evidence list and citation list of a scored payload

(***************************************************************************)
(* Generic helpers.                                                        *)
(***************************************************************************)
SeqsUpTo(S, n) == UNION {[1..k -> S] : k \in 0..n}

RECURSIVE SumSeq(_)
SumSeq(s) == IF s = <<>> THEN 0 ELSE Head(s) + SumSeq(Tail(s))

Max2(a, b) == IF a >= b THEN a ELSE b
Min2(a, b) == IF a <= b THEN a ELSE b

RECURSIVE MaxSeq(_)
MaxSeq(s) == IF Len(s) = 1 THEN s[1] ELSE Max2(Head(s), MaxSeq(Tail(s)))

\* list.sort(reverse=True) on numbers: insertion into a descending list
RECURSIVE InsertDesc(_, _)
InsertDesc(x, s) ==
    IF s = <<>> THEN <<x>>
    ELSE IF x >= Head(s) THEN <<x>> \o s
    ELSE <<Head(s)>> \o InsertDesc(x, Tail(s))

RECURSIVE SortDesc(_)
SortDesc(s) == IF s = <<>> THEN <<>> ELSE InsertDesc(Head(s), SortDesc(Tail(s)))

Take(s, n) == SubSeq(s, 1, Min2(n, Len(s)))

\* any(w in t for w in words)
AnyIn(words, t) == (words \cap t) # {}

Map(f(_), s) == [i \in 1..Len(s) |-> f(s[i])]

(***************************************************************************)
(* Data.                                                                   *)
(***************************************************************************)
\* proposal_text: None, "" / whitespace only, or a text with some phrases
ProposalVocabulary == {"rear extension", "overlooking", "materials"}
Proposals ==
    {[kind |-> "missing", phrases |-> {}], [kind |-> "blank", phrases |-> {}]}
    \cup {[kind |-> "text", phrases |-> p] : p \in SUBSET ProposalVocabulary}

\* (proposal_text or "").lower()
Lower(proposal) == proposal.phrases

\* The result items the evidence provider may return
ProviderItems ==
    { [doc_key |-> "dap_2020",   paragraph_ref |-> 1, score |-> 10, text |-> {}],
      [doc_key |-> "nppf_2024",  paragraph_ref |-> 1, score |-> 30, text |-> {"privacy"}],
      [doc_key |-> "dap_2020",   paragraph_ref |-> 2, score |-> 40, text |-> {"design"}],
      [doc_key |-> "csucp_2015", paragraph_ref |-> 1, score |-> 50, text |-> {}] }

\* What retrieve_policies may hand back: {ok, results, reason?}
ProviderBlock(o, r, rs) ==
    [ok |-> o, reason |-> r, results |-> rs, evidence |-> <<>>, citations |-> <<>>]

ProviderBlocks ==
    { ProviderBlock(TRUE, {}, rs) : rs \in SeqsUpTo(ProviderItems, MaxResults) }
    \cup
    { ProviderBlock(FALSE, r, rs) :
        r \in {{}, {"index_unavailable"}}, rs \in SeqsUpTo(ProviderItems, MaxResults) }

\* Precedent results
CaseItems ==
    { [score |-> 30, decision |-> "Refused", reasons_text |-> {"overlooking"},
       conditions_text |-> {}],
      [score |-> 30, decision |-> "Refused", reasons_text |-> {"highway safety"},
       conditions_text |-> {}],
      [score |-> 30, decision |-> "Approved", reasons_text |-> {},
       conditions_text |-> {"materials"}],
      [score |-> 10, decision |-> "Approved", reasons_text |-> {},
       conditions_text |-> {}] }

\* precedent lists longer than the five results the tilt looks at: one refusal
\* for overlooking, first or last, among approvals
LongCaseLists ==
    { [i \in 1..6 |->
         IF i = k
         THEN [score |-> 30, decision |-> "Refused", reasons_text |-> {"overlooking"},
               conditions_text |-> {}]
         ELSE [score |-> 30, decision |-> "Approved", reasons_text |-> {},
               conditions_text |-> {"materials"}]] : k \in {1, 6} }

\* case_block: None ({}), or {ok, reason?, results}
CaseBlocks ==
    {{}} \cup
    { {[ok |-> o, reason |-> {}, results |-> rs]} :
        o \in BOOLEAN, rs \in SeqsUpTo(CaseItems, MaxCases) }
    \cup
    { {[ok |-> TRUE, reason |-> {}, results |-> rs]} : rs \in LongCaseLists }

(***************************************************************************)
(* policies/policy_evidence.py                                             *)
(***************************************************************************)
\* one citation: the provenance of a result, without its text
CitationOf(r) ==
    [doc_key |-> r.doc_key, paragraph_ref |-> r.paragraph_ref, score |-> r.score]

\* the gate with an off-by-one in its size test (<= for <)
require_policy_evidence_offbyone(retrieval_out, min_results) ==
    LET ok      == retrieval_out.ok
        results == retrieval_out.results
    IN  IF (~ok) \/ (Len(results) <= min_results)
        THEN [ok |-> FALSE,
              reason |-> IF retrieval_out.reason # {} THEN retrieval_out.reason
                         ELSE {"Insufficient policy evidence"},
              citations |-> <<>>, evidence |-> <<>>, results |-> <<>>]
        ELSE [ok |-> TRUE, reason |-> {},
              citations |-> Map(CitationOf, results),
              evidence |-> results, results |-> <<>>]

require_policy_evidence(retrieval_out, min_results) ==
    LET ok      == retrieval_out.ok
        results == retrieval_out.results
    IN  IF (~ok) \/ (Len(results) < min_results)
        THEN [ok |-> FALSE,
              reason |-> IF retrieval_out.reason # {} THEN retrieval_out.reason
                         ELSE {"Insufficient policy evidence"},
              citations |-> <<>>, evidence |-> <<>>, results |-> <<>>]
        ELSE [ok |-> TRUE, reason |-> {},
              citations |-> Map(CitationOf, results),
              evidence |-> results, results |-> <<>>]

(***************************************************************************)
(* report/judgment.py                                                      *)
(***************************************************************************)
HOUSEHOLDER_WORDS == {"rear extension", "single storey", "two storey", "loft",
                      "dormer", "outbuilding", "porch"}
AMENITY_WORDS  == {"residential amenity", "privacy", "overlooking", "daylight",
                   "sunlight", "outlook", "noise", "disturbance"}
DESIGN_WORDS   == {"design", "character", "scale", "massing", "materials", "appearance"}
HERITAGE_WORDS == {"heritage", "listed", "conservation area", "setting", "significance"}
HIGHWAYS_WORDS == {"highway", "parking", "traffic", "access", "visibility", "junction"}
FLOOD_WORDS    == {"flood", "drainage", "surface water", "suds"}
TREES_WORDS    == {"tree", "tpo", "arboricultural", "hedgerow"}

detect_issues(proposal_text) ==
    LET t == Lower(proposal_text)
        tag(words, name) == IF AnyIn(words, t) THEN <<name>> ELSE <<>>
        issues == tag(HOUSEHOLDER_WORDS, "householder") \o tag(AMENITY_WORDS, "amenity")
                  \o tag(DESIGN_WORDS, "design") \o tag(HERITAGE_WORDS, "heritage")
                  \o tag(HIGHWAYS_WORDS, "highways") \o tag(FLOOD_WORDS, "flood")
                  \o tag(TREES_WORDS, "trees")
    IN  IF issues = <<>> THEN <<"general">> ELSE issues

\* an average is the pair <<sum, count>>: the rational sum/count, in tenths
AvgLess(avg, tenths) == avg[1] < tenths * avg[2]
\* "at least" read as "more than"
AvgAtLeast_strict(avg, tenths) == avg[1] > tenths * avg[2]

AvgAtLeast(avg, tenths) == avg[1] >= tenths * avg[2]

ScoreOf(e) == e.score

_avg_top_scores(evidence, n) ==
    IF evidence = <<>> THEN <<0, 1>>
    ELSE LET top == Take(SortDesc(Map(ScoreOf, evidence)), n)
         IN  <<SumSeq(top), Max2(1, Len(top))>>

\* the policy check without its test of the number of results
_policy_strength_anycount(policy_block) ==
    IF ~policy_block.ok
    THEN [ok |-> FALSE, avg |-> <<0, 1>>, reason |-> "no_policy_results"]
    ELSE LET ev  == IF policy_block.evidence # <<>> THEN policy_block.evidence
                    ELSE policy_block.results
             avg == _avg_top_scores(ev, 6)
         IN  IF AvgLess(avg, 30)
             THEN [ok |-> FALSE, avg |-> avg, reason |-> "policy_scores_too_low"]
             ELSE [ok |-> TRUE, avg |-> avg, reason |-> "ok"]

_policy_strength(policy_block) ==
    IF ~policy_block.ok
    THEN [ok |-> FALSE, avg |-> <<0, 1>>, reason |-> "no_policy_results"]
    ELSE LET ev  == IF policy_block.evidence # <<>> THEN policy_block.evidence
                    ELSE policy_block.results
             avg == _avg_top_scores(ev, 6)
         IN  IF Len(ev) < 3
             THEN [ok |-> FALSE, avg |-> avg, reason |-> "policy_results_too_few"]
             ELSE IF AvgLess(avg, 30)
             THEN [ok |-> FALSE, avg |-> avg, reason |-> "policy_scores_too_low"]
             ELSE [ok |-> TRUE, avg |-> avg, reason |-> "ok"]

\* the precedent check without its test of the average score
_case_strength_nofloor(case_block) ==
    IF case_block = {}
    THEN [ok |-> FALSE, avg |-> <<0, 1>>, reason |-> "precedents_not_enabled"]
    ELSE LET b == CHOOSE c \in case_block : TRUE
         IN  IF ~b.ok
             THEN [ok |-> FALSE, avg |-> <<0, 1>>,
                   reason |-> IF b.reason # {} THEN CHOOSE r \in b.reason : TRUE
                              ELSE "no_case_results"]
             ELSE LET ev  == b.results
                      avg == _avg_top_scores(ev, 5)
                  IN  IF Len(ev) < 1
                      THEN [ok |-> FALSE, avg |-> avg, reason |-> "case_results_too_few"]
                      ELSE [ok |-> TRUE, avg |-> avg, reason |-> "ok"]

\* case_block is {} (None) or {b}
_case_strength(case_block) ==
    IF case_block = {}
    THEN [ok |-> FALSE, avg |-> <<0, 1>>, reason |-> "precedents_not_enabled"]
    ELSE LET b == CHOOSE c \in case_block : TRUE
         IN  IF ~b.ok
             THEN [ok |-> FALSE, avg |-> <<0, 1>>,
                   reason |-> IF b.reason # {} THEN CHOOSE r \in b.reason : TRUE
                              ELSE "no_case_results"]
             ELSE LET ev  == b.results
                      avg == _avg_top_scores(ev, 5)
                  IN  IF Len(ev) < 1
                      THEN [ok |-> FALSE, avg |-> avg, reason |-> "case_results_too_few"]
                      ELSE IF AvgLess(avg, 20)
                      THEN [ok |-> FALSE, avg |-> avg, reason |-> "case_scores_too_low"]
                      ELSE [ok |-> TRUE, avg |-> avg, reason |-> "ok"]

COND_PLANS     == "carried out in accordance with the approved plans"
COND_MATERIALS == "external materials shall match the existing dwelling"
COND_GLAZING   == "side-facing windows shall be obscure glazed"
REFUSAL_AMENITY == "unacceptable harm to the residential amenity of neighbouring occupiers"

\* the drafting without its unconditional approved-plans condition
_draft_householder_conditions_noplans(policy_evidence, proposal_text) ==
    LET t == Lower(proposal_text)
    IN  (IF AnyIn({"materials", "match existing"}, t) THEN <<COND_MATERIALS>> ELSE <<>>)
        \o (IF "privacy" \in t \/ "overlooking" \in t THEN <<COND_GLAZING>> ELSE <<>>)

_draft_householder_conditions(policy_evidence, proposal_text) ==
    LET t == Lower(proposal_text)
    IN  <<COND_PLANS>>
        \o (IF AnyIn({"materials", "match existing"}, t) THEN <<COND_MATERIALS>> ELSE <<>>)
        \o (IF "privacy" \in t \/ "overlooking" \in t THEN <<COND_GLAZING>> ELSE <<>>)

\* the tilt with "privacy" and "overlooking" missing from its terms
TiltRefuse_fewerterms(results) ==
    \E i \in 1..Min2(5, Len(results)) :
        /\ results[i].decision = "Refused"
        /\ AnyIn({"loss of daylight", "overbearing"}, results[i].reasons_text)

\* the loop over case_block["results"][:5]
TiltRefuse(results) ==
    \E i \in 1..Min2(5, Len(results)) :
        /\ results[i].decision = "Refused"                  \* "refus" in dec
        /\ AnyIn({"loss of daylight", "overbearing", "privacy", "overlooking"},
                 results[i].reasons_text)

make_recommendation(proposal_text, policy_block, case_block, require_precedent) ==
    LET issues  == detect_issues(proposal_text)
        policy  == _policy_strength(policy_block)
        case    == _case_strength(case_block)
        signals == [policy_avg_score |-> policy.avg, case_avg_score |-> case.avg,
                    case_reason |-> case.reason]
        t == Lower(proposal_text)
        harm_flags == AnyIn({"loss of light", "overlooking", "overbearing", "unacceptable"}, t)
        tilt_refuse == IF case.ok
                       THEN TiltRefuse((CHOOSE c \in case_block : TRUE).results)
                       ELSE FALSE
        tilt_conditions == TRUE
        conds == IF tilt_conditions
                 THEN _draft_householder_conditions(policy_block.evidence, proposal_text)
                 ELSE <<>>
    IN  IF ~policy.ok
        THEN [decision |-> "insufficient_evidence",
              reason |-> {<<"policy_retrieval_weak", policy.reason>>},
              issues |-> issues, signals |-> signals,
              draft_conditions |-> <<>>, draft_refusal_reasons |-> <<>>]
        ELSE IF require_precedent /\ ~case.ok
        THEN [decision |-> "insufficient_evidence",
              reason |-> {<<"precedent_retrieval_weak", case.reason>>},
              issues |-> issues, signals |-> signals,
              draft_conditions |-> <<>>, draft_refusal_reasons |-> <<>>]
        ELSE IF tilt_refuse /\ harm_flags
        THEN [decision |-> "refuse", reason |-> {},
              issues |-> issues, signals |-> signals,
              draft_conditions |-> <<>>, draft_refusal_reasons |-> <<REFUSAL_AMENITY>>]
        ELSE [decision |-> IF conds # <<>> THEN "approve_with_conditions" ELSE "approve",
              reason |-> {},
              issues |-> issues, signals |-> signals,
              draft_conditions |-> conds, draft_refusal_reasons |-> <<>>]


(***************************************************************************)
(* judgement/weighing_balance.py                                           *)
(***************************************************************************)
_topic_from_text(q) ==
    LET ql == Lower(q)
    IN  IF AnyIn({"rear extension", "single storey", "two storey", "loft", "dormer",
                  "outbuilding", "garage", "porch"}, ql) THEN "householder"
        ELSE IF AnyIn({"listed", "conservation area", "heritage", "historic"}, ql)
        THEN "heritage"
        ELSE IF AnyIn({"parking", "traffic", "highway", "visibility", "access",
                       "junction"}, ql) THEN "highways"
        ELSE IF AnyIn({"flood", "surface water", "drainage", "suds"}, ql) THEN "flood"
        ELSE "general"

ISSUE_AMENITY == "Neighbour amenity (privacy/daylight/outlook)"
ISSUE_DESIGN  == "Design/scale/materials/character"

weigh_balance(proposal_text, policy_block) ==
    LET results == policy_block.results
    IN  IF results = <<>>
        THEN [decision |-> "insufficient_evidence", confidence |-> 0,
              reasons_for |-> <<>>,
              reasons_against |-> <<"No policy evidence retrieved.">>,
              suggested_conditions |-> <<>>, issues |-> <<>>]
        ELSE
        LET scores    == Map(ScoreOf, results)
            avg_score == <<SumSeq(scores), Max2(Len(scores), 1)>>
            top_score == MaxSeq(scores)
            topic     == _topic_from_text(proposal_text)
            text_blob == UNION {results[i].text : i \in 1..Len(results)}
            issues ==
                (IF topic = "householder"
                    /\ AnyIn({"amenity", "privacy", "overlooking", "daylight", "sunlight",
                              "outlook"}, text_blob)
                 THEN <<ISSUE_AMENITY>> ELSE <<>>)
                \o (IF topic = "householder"
                       /\ AnyIn({"design", "scale", "materials", "character"}, text_blob)
                    THEN <<ISSUE_DESIGN>> ELSE <<>>)
                \o (IF topic = "heritage" THEN <<"Heritage significance/setting">> ELSE <<>>)
                \o (IF topic = "highways" THEN <<"Highway safety/parking/access">> ELSE <<>>)
                \o (IF topic = "flood" THEN <<"Flood risk/surface water drainage">> ELSE <<>>)
            has(x) == \E i \in 1..Len(issues) : issues[i] = x
            decision == IF AvgAtLeast(avg_score, 40) /\ top_score >= 45
                        THEN "approve_with_conditions"
                        ELSE IF AvgLess(avg_score, 25) THEN "insufficient_evidence"
                        ELSE "needs_officer_review"
            confidence == IF decision = "approve_with_conditions" THEN 70
                          ELSE IF decision = "insufficient_evidence" THEN 25
                          ELSE 45
            reasons_for ==
                IF decision = "approve_with_conditions"
                THEN <<"acceptable subject to safeguards">>
                     \o (IF has(ISSUE_AMENITY) THEN <<"amenity addressed">> ELSE <<>>)
                     \o (IF has(ISSUE_DESIGN) THEN <<"design controlled by conditions">> ELSE <<>>)
                ELSE <<>>
            reasons_against ==
                IF decision = "approve_with_conditions" THEN <<>>
                ELSE IF decision = "needs_officer_review"
                THEN <<"requires officer judgement">>
                     \o (IF issues # <<>> THEN <<<<"Main issues flagged", issues>>>> ELSE <<>>)
                ELSE <<"Retrieval quality appears weak">>
            suggested_conditions ==
                IF decision = "approve_with_conditions"
                THEN <<"in accordance with the approved plans", "materials to match existing">>
                     \o (IF has(ISSUE_AMENITY) THEN <<"no additional windows">> ELSE <<>>)
                ELSE <<>>
        IN  [decision |-> decision, confidence |-> confidence,
             reasons_for |-> reasons_for, reasons_against |-> reasons_against,
             suggested_conditions |-> suggested_conditions, issues |-> issues]

(***************************************************************************)
(* report/report_entrypoint.py                                             *)
(***************************************************************************)
\* round(n/d) to the nearest integer, ties to the even one (Python's round)
RoundHalfEven(n, d) ==
    LET q == n \div d
        r == n % d
    IN  IF 2 * r < d THEN q
        ELSE IF 2 * r > d THEN q + 1
        ELSE IF q % 2 = 0 THEN q ELSE q + 1

\* policy_block is what retrieve_policies returned for the proposal
generate_report_payload(proposal_text, policy_block) ==
    IF proposal_text.kind # "text"          \* not proposal_text or not .strip()
    THEN [ok |-> FALSE, reason |-> {"empty_proposal"}, report |-> {}]
    ELSE IF (~policy_block.ok) \/ policy_block.results = <<>>
    THEN [ok |-> FALSE, reason |-> {"insufficient_policy_evidence"},
          policy |-> [ok |-> FALSE, citations |-> <<>>, evidence |-> <<>>],
          report |-> {}]
    ELSE
    LET results   == policy_block.results
        citations == Map(CitationOf, results)
        sum       == SumSeq(Map(ScoreOf, results))
        n         == Len(results)
        approve   == sum >= 35 * n                       \* avg_score >= 3.5
        \* round(min(avg_score / 6.0, 1.0), 2), in hundredths
        confidence == IF sum >= 60 * n THEN 100 ELSE RoundHalfEven(10 * sum, 6 * n)
        report == [decision |-> IF approve THEN "approve_with_conditions"
                                ELSE "needs_officer_review",
                   confidence |-> confidence,
                   draft_conditions |->
                       IF approve THEN <<"materials to match existing",
                                         "in accordance with approved plans">>
                       ELSE <<>>]
    IN  [ok |-> TRUE, reason |-> {},
         signals |-> [policy_avg_score |-> <<sum, n>>, policy_count |-> n],
         policy |-> [ok |-> TRUE, citations |-> citations, evidence |-> results],
         report |-> {report}]

(***************************************************************************)
(* One proposal evaluation: the provider answers, the gate may be applied, *)
(* and one decision entry point is called on the block in hand.            *)
(***************************************************************************)
NoCall == [fn |-> "none"]

DecisionInit ==
    /\ dpc = "start"
    /\ block = ProviderBlock(FALSE, {}, <<>>)
    /\ gate_in = {}
    /\ call = NoCall
    /\ outcome = [fn |-> "none"]

\* retrieve_policies(...) returns (external collaborator: any block)
Retrieve ==
    /\ dpc = "start"
    /\ \E b \in ProviderBlocks : block' = b
    /\ dpc' = "retrieved"
    /\ UNCHANGED <<gate_in, call, outcome, rvars, tvars, qvars, lvars, cvars>>

\* the evidence gate is applied to the provider's block
Gate ==
    /\ dpc = "retrieved"
    /\ \E m \in {2, 3} :                 \* min_results: 3 unless the caller says
         /\ gate_in' = {[retrieval_out |-> block, min_results |-> m]}
         /\ block' = require_policy_evidence(block, m)
    /\ dpc' = "gated"
    /\ UNCHANGED <<call, outcome, rvars, tvars, qvars, lvars, cvars>>

CallMakeRecommendation ==
    /\ dpc \in {"retrieved", "gated"}
    /\ \E p \in Proposals, c \in CaseBlocks, rp \in BOOLEAN :
         /\ call' = [fn |-> "make_recommendation", proposal_text |-> p,
                     policy_block |-> block, case_block |-> c, require_precedent |-> rp]
         /\ outcome' = make_recommendation(p, block, c, rp)
    /\ dpc' = "decided"
    /\ gate_in' = {}
    /\ UNCHANGED <<block, rvars, tvars, qvars, lvars, cvars>>

CallWeighBalance ==
    /\ dpc \in {"retrieved", "gated"}
    /\ \E p \in Proposals :
         /\ call' = [fn |-> "weigh_balance", proposal_text |-> p, policy_block |-> block]
         /\ outcome' = weigh_balance(p, block)
    /\ dpc' = "decided"
    /\ gate_in' = {}
    /\ UNCHANGED <<block, rvars, tvars, qvars, lvars, cvars>>

\* generate_report_payload retrieves for itself: it sees the provider's block
CallGenerateReportPayload ==
    /\ dpc = "retrieved"
    /\ \E p \in Proposals :
         /\ call' = [fn |-> "generate_report_payload", proposal_text |-> p,
                     policy_block |-> block]
         /\ outcome' = generate_report_payload(p, block)
    /\ dpc' = "decided"
    /\ UNCHANGED <<block, gate_in, rvars, tvars, qvars, lvars, cvars>>

DecisionNext ==
    \/ Retrieve
    \/ Gate
    \/ CallMakeRecommendation
    \/ CallWeighBalance
    \/ CallGenerateReportPayload



(***************************************************************************)
(* scripts/report_rerank.py                                                *)
(*                                                                         *)
(* A rerank score is computed by multiplying and dividing, so it is kept   *)
(* as an exact rational <<n, d>> in lowest terms (d > 0), in score units.  *)
(* The citations the reranker reads and builds carry such a score.         *)
(***************************************************************************)
Abs(n) == IF n < 0 THEN -n ELSE n

RECURSIVE GCD(_, _)
GCD(a, b) == IF b = 0 THEN a ELSE GCD(b, a % b)

RNorm(n, d) == LET g == GCD(Abs(n), d) IN <<n \div g, d \div g>>
RMul(x, y)  == RNorm(x[1] * y[1], x[2] * y[2])
RSub(x, y)  == RNorm(x[1] * y[2] - y[1] * x[2], x[2] * y[2])
RLess(x, y) == x[1] * y[2] < y[1] * x[2]

\* a JSON object is a function on its keys; d.get(k, default)
Get(d, k, default) == IF k \in DOMAIN d THEN d[k] ELSE default

\* d.setdefault(k, v) for every k of defaults
SetDefaults(d, defaults) ==
    [k \in DOMAIN d \cup DOMAIN defaults |-> IF k \in DOMAIN d THEN d[k] ELSE defaults[k]]

NoEntries == [k \in {} |-> 0]       \* the empty JSON object {}

RerankDefaults ==
    [doc_diversity_target |-> 3, max_evidence_items |-> 10, c3_keyword_boost |-> 200,
     c3_keywords |-> {}, irrelevance_penalty_per_hit |-> 70, min_score_floor |-> 10,
     doc_boost |-> NoEntries, topic_penalties |-> NoEntries]

load_weights(cfg) == SetDefaults(cfg, RerankDefaults)

RECURSIVE ApplyPenalties(_, _, _)
\* for topic, mult in topic_penalties.items(): score *= 1.0 / float(mult or 1.0)
ApplyPenalties(score, topics, topic_penalties) ==
    IF topics = {} THEN score
    ELSE LET topic == CHOOSE x \in topics : TRUE
             mult  == IF topic_penalties[topic] = 0 THEN 100 ELSE topic_penalties[topic]
         IN  ApplyPenalties(RMul(score, <<100, mult>>), topics \ {topic}, topic_penalties)

score_item(text, base_score, doc_key, w) ==
    LET t        == text
        score0   == RNorm(base_score, 10)
        score1   == RMul(score0, <<Get(w.doc_boost, doc_key, 100), 100>>)
        boost    == w.c3_keyword_boost
        hits     == Cardinality({kw \in w.c3_keywords : kw \in t})
        score2   == IF hits # 0
                    THEN RMul(score1, <<300 + (boost - 100) * Min2(3, hits), 300>>)
                    ELSE score1
        pen_per_hit     == w.irrelevance_penalty_per_hit
        topic_penalties == w.topic_penalties
        matched  == {topic \in DOMAIN topic_penalties : topic \in t}
        penalty_hits == Cardinality(matched)
        score3   == ApplyPenalties(score2, matched, topic_penalties)
        score4   == IF penalty_hits # 0
                    THEN RSub(score3, <<penalty_hits * pen_per_hit, 100>>)
                    ELSE score3
        floor    == RNorm(w.min_score_floor, 100)
    IN  IF RLess(score4, floor) THEN floor ELSE score4

RerankScore(e) == e["_rerank_score"]

\* e2 = dict(e); e2["_rerank_score"] = score_item(...)
Scored(e, w) ==
    [k \in DOMAIN e \cup {"_rerank_score"} |->
        IF k = "_rerank_score" THEN score_item(e.text, e.score, e.doc_key, w) ELSE e[k]]

\* scored.sort(key=_rerank_score, reverse=True): stable, so an item goes
\* behind every item whose score is not smaller
RECURSIVE InsertByScore_unstable(_, _)
\* an unstable sort: an item goes in front of the items of equal score
InsertByScore_unstable(x, s) ==
    IF s = <<>> THEN <<x>>
    ELSE IF ~RLess(RerankScore(x), RerankScore(Head(s))) THEN <<x>> \o s
    ELSE <<Head(s)>> \o InsertByScore_unstable(x, Tail(s))

RECURSIVE InsertByScore(_, _)
InsertByScore(x, s) ==
    IF s = <<>> THEN <<x>>
    ELSE IF RLess(RerankScore(Head(s)), RerankScore(x)) THEN <<x>> \o s
    ELSE <<Head(s)>> \o InsertByScore(x, Tail(s))

RECURSIVE SortByScore(_, _)
\* inserts the items of s one by one, left to right, into the sorted acc
SortByScore(s, acc) ==
    IF s = <<>> THEN acc ELSE SortByScore(Tail(s), InsertByScore(Head(s), acc))

Range(s) == {s[i] : i \in 1..Len(s)}

RECURSIVE DiversityPass_anydoc(_, _, _, _)
\* Pass 1 without the test for a document already seen
DiversityPass_anydoc(scored, picked, seen_docs, target_docs) ==
    IF scored = <<>> THEN picked
    ELSE LET e  == Head(scored)
             dk == e.doc_key
         IN  IF dk # ""
             THEN IF Len(picked) + 1 >= target_docs
                  THEN Append(picked, e)
                  ELSE DiversityPass_anydoc(Tail(scored), Append(picked, e),
                                            seen_docs \cup {dk}, target_docs)
             ELSE DiversityPass_anydoc(Tail(scored), picked, seen_docs, target_docs)

RECURSIVE DiversityPass(_, _, _, _)
\* Pass 1: pick best per doc until we hit the doc diversity target
DiversityPass(scored, picked, seen_docs, target_docs) ==
    IF scored = <<>> THEN picked
    ELSE LET e  == Head(scored)
             dk == e.doc_key
         IN  IF dk # "" /\ dk \notin seen_docs
             THEN IF Cardinality(seen_docs \cup {dk}) >= target_docs
                  THEN Append(picked, e)                                   \* break
                  ELSE DiversityPass(Tail(scored), Append(picked, e),
                                     seen_docs \cup {dk}, target_docs)
             ELSE DiversityPass(Tail(scored), picked, seen_docs, target_docs)

RECURSIVE FillPass(_, _, _)
\* Pass 2: fill remaining slots by score
FillPass(scored, picked, max_items) ==
    IF scored = <<>> \/ Len(picked) >= max_items THEN picked
    ELSE IF Head(scored) \in Range(picked)
    THEN FillPass(Tail(scored), picked, max_items)
    ELSE FillPass(Tail(scored), Append(picked, Head(scored)), max_items)

CitationKey(x) == <<x.doc_key, x.paragraph_ref>>

\* cit_map[key]: the last input citation with the key
LastWithKey(citations, key) ==
    LET idx == {i \in 1..Len(citations) : CitationKey(citations[i]) = key}
    IN  citations[CHOOSE i \in idx : \A j \in idx : j <= i]

SynthesizedCitation(e) ==
    [doc_key |-> e.doc_key, paragraph_ref |-> e.paragraph_ref, score |-> RerankScore(e)]

\* the citation map keyed by doc_key alone
BuildCitations_bydoc(citations, picked) ==
    [i \in 1..Len(picked) |->
        IF \E j \in 1..Len(citations) : citations[j].doc_key = picked[i].doc_key
        THEN LET idx == {j \in 1..Len(citations) : citations[j].doc_key = picked[i].doc_key}
             IN  citations[CHOOSE j \in idx : \A k \in idx : k <= j]
        ELSE SynthesizedCitation(picked[i])]

BuildCitations(citations, picked) ==
    [i \in 1..Len(picked) |->
        IF \E j \in 1..Len(citations) : CitationKey(citations[j]) = CitationKey(picked[i])
        THEN LastWithKey(citations, CitationKey(picked[i]))
        ELSE SynthesizedCitation(picked[i])]

rerank_policy(citations, evidence, weights) ==
    LET w      == load_weights(weights)
        scored == SortByScore([i \in 1..Len(evidence) |-> Scored(evidence[i], w)], <<>>)
        target_docs == w.doc_diversity_target
        max_items   == w.max_evidence_items
        picked1 == DiversityPass(scored, <<>>, {}, target_docs)
        picked  == FillPass(scored, picked1, max_items)
    IN  [citations |-> BuildCitations(citations, picked), evidence |-> picked]

\* what the caller's own objects hold when rerank_policy has returned:
\* load_weights works on (cfg or {}), which is the caller's mapping unless
\* that is empty, and setdefault writes into it; each evidence item is copied
\* (e2 = dict(e)) before the score is attached; the citations are only read
CallerAfter(citations, evidence, weights) ==
    [citations |-> citations,
     evidence  |-> evidence,
     weights   |-> IF weights = NoEntries THEN weights
                   ELSE SetDefaults(weights, RerankDefaults)]

(***************************************************************************)
(* One use of the reranker.                                                *)
(***************************************************************************)
\* the evidence items a payload may hold; "" is a missing or empty doc_key
RerankItems ==
    { [doc_key |-> d, paragraph_ref |-> 1, score |-> sc, text |-> {}] :
        d \in {"dap_2020", "nppf_2024"}, sc \in {20, 40} }
    \cup
    { [doc_key |-> "",          paragraph_ref |-> 1, score |-> 40, text |-> {}],
      [doc_key |-> "dap_2020",  paragraph_ref |-> 2, score |-> 40, text |-> {"privacy"}],
      [doc_key |-> "nppf_2024", paragraph_ref |-> 2, score |-> 40, text |-> {"leisure"}] }

RerankCitations ==
    { [doc_key |-> "dap_2020",  paragraph_ref |-> 1, score |-> <<4, 1>>],
      [doc_key |-> "dap_2020",  paragraph_ref |-> 1, score |-> <<9, 1>>] }

RerankWeights ==
    { NoEntries }
    \cup
    { [doc_diversity_target |-> t, max_evidence_items |-> m] : t \in {1, 2}, m \in {1, 3} }
    \cup
    { [doc_diversity_target |-> 2, max_evidence_items |-> 3,
       c3_keywords |-> {"privacy", "amenity"}, c3_keyword_boost |-> 200,
       doc_boost |-> [k \in {"nppf_2024"} |-> 150],
       topic_penalties |-> [k \in {"leisure", "tourism"} |-> 200],
       irrelevance_penalty_per_hit |-> 70] }

RerankInit ==
    /\ rpc = "start"
    /\ rr_in = [citations |-> <<>>, evidence |-> <<>>, weights |-> NoEntries]
    /\ rr_out = [citations |-> <<>>, evidence |-> <<>>,
                 caller |-> CallerAfter(<<>>, <<>>, NoEntries)]
    /\ rr_again = [citations |-> <<>>, evidence |-> <<>>]

\* a renderer has a payload's policy block and the weights file's content in hand
RerankInput ==
    /\ rpc = "start"
    /\ \E c \in SeqsUpTo(RerankCitations, MaxCitations),
          e \in SeqsUpTo(RerankItems, MaxEvidence),
          w \in RerankWeights :
         rr_in' = [citations |-> c, evidence |-> e, weights |-> w]
    /\ rpc' = "input"
    /\ UNCHANGED <<rr_out, rr_again, dvars, tvars, qvars, lvars, cvars>>

Rerank ==
    /\ rpc = "input"
    /\ LET out == rerank_policy(rr_in.citations, rr_in.evidence, rr_in.weights)
       IN  rr_out' = [citations |-> out.citations, evidence |-> out.evidence,
                      caller |-> CallerAfter(rr_in.citations, rr_in.evidence,
                                             rr_in.weights)]
    /\ rpc' = "once"
    /\ UNCHANGED <<rr_in, rr_again, dvars, tvars, qvars, lvars, cvars>>

RerankAgain ==
    /\ rpc = "once"
    /\ rr_again' = rerank_policy(rr_out.citations, rr_out.evidence, rr_in.weights)
    /\ rpc' = "twice"
    /\ UNCHANGED <<rr_in, rr_out, dvars, tvars, qvars, lvars, cvars>>

RerankNext == RerankInput \/ Rerank \/ RerankAgain

(***************************************************************************)
(* scripts/auto_tune_weights.py  (the per-run tuner)                       *)
(***************************************************************************)
\* d[k] = v on a JSON object
Put(d, k, v) == [x \in DOMAIN d \cup {k} |-> IF x = k THEN v ELSE d[x]]

\* a clamp that forgets its upper limit
clamp_nohi(x, lo, hi) == Max2(lo, x)

clamp(x, lo, hi) == Max2(lo, Min2(hi, x))

\* a bump that steps the other way
bump_reversed(doc_boost, doc, delta) ==
    Put(doc_boost, doc, clamp(Get(doc_boost, doc, 100) - delta, 80, 150))

\* bump(doc, delta), on the doc_boost object
bump(doc_boost, doc, delta) ==
    Put(doc_boost, doc, clamp(Get(doc_boost, doc, 100) + delta, 80, 150))

WATCH_LIST == <<"leisure", "tourism", "nightclub", "employment land", "retail hierarchy">>

\* a loop that leaves the penalties as they are
LowerPenalties_idle(topic_penalty, keys) == topic_penalty

RECURSIVE LowerPenalties(_, _)
\* for k in [...]: topic_penalty[k] = clamp(topic_penalty.get(k, 0.90) - 0.03, 0.50, 1.00)
LowerPenalties(topic_penalty, keys) ==
    IF keys = <<>> THEN topic_penalty
    ELSE LowerPenalties(Put(topic_penalty, Head(keys),
                            clamp(Get(topic_penalty, Head(keys), 90) - 3, 50, 100)),
                        Tail(keys))

\* main(), from the loaded w to the w it writes back
AutoTune(w, low_div, irrelevant) ==
    LET w1 == SetDefaults(w, [doc_boost |-> NoEntries, topic_penalty |-> NoEntries])
        doc_boost == IF low_div
                     THEN bump(bump(bump(w1.doc_boost, "nppf_2024", 3), "dap_2020", 2),
                               "csucp_2015", -2)
                     ELSE w1.doc_boost
        topic_penalty == IF irrelevant THEN LowerPenalties(w1.topic_penalty, WATCH_LIST)
                         ELSE w1.topic_penalty
    IN  Put(Put(w1, "doc_boost", doc_boost), "topic_penalty", topic_penalty)

(***************************************************************************)
(* scripts/score_report_quality.py: the texts it prints that the tuners    *)
(* look for.  A text is the set of the phrases, of those a tuner looks     *)
(* for, that occur in its lower-cased form.                                *)
(***************************************************************************)
\* the lines printed for the irrelevance signals, and the three warnings
LINE_IRRELEVANCE_SIGNALS == {"irrelevance signals detected", "irrelevance"}
WARN_LOW_DIVERSITY == {"low document diversity"}
WARN_LOW_RELEVANCE == {"low c3 relevance"}
WARN_UNRELATED     == {"some evidence looks unrelated", "unrelated", "leisure/tourism"}

(***************************************************************************)
(* scripts/log_feedback.py: a record of the feedback log, by the phrases   *)
(* in the proposal text and in the score text it stores.                   *)
(***************************************************************************)
FeedbackRecord(proposal_text, score_text) ==
    [proposal_text |-> proposal_text, score_text |-> score_text]

\* the text of the record's line in the log: json.dumps(rec) holds the text
\* of every field
LineText(line) == line.proposal_text \cup line.score_text

(***************************************************************************)
(* scripts/update_weights_from_feedback.py  (the batch tuner)              *)
(***************************************************************************)
DEFAULT_MIN_RECORDS == 3

\* lines[-min(10, len(lines)):]
LastLines(lines) == SubSeq(lines, Len(lines) - Min2(10, Len(lines)) + 1, Len(lines))

RECURSIVE RaisePenalties(_, _)
\* for k in [...]: tp[k] = min(float(tp.get(k, 2.0)) + 0.2, 4.0)
RaisePenalties(tp, keys) ==
    IF keys = <<>> THEN tp
    ELSE RaisePenalties(Put(tp, Head(keys), Min2(Get(tp, Head(keys), 200) + 20, 400)),
                        Tail(keys))

\* main(), from the loaded weights and the feedback lines to [changed, weights];
\* txt = "\n".join(last).lower() is searched for the warnings' phrases
UpdateWeights(weights, lines, min_records) ==
    IF Len(lines) < min_records THEN [changed |-> FALSE, weights |-> weights]
    ELSE
    LET last == LastLines(lines)
        txt        == UNION {LineText(last[i]) : i \in 1..Len(last)}
        low_div    == "low document diversity" \in txt
        irrelevant == ("irrelevance" \in txt) \/ ("unrelated" \in txt)
                      \/ ("leisure/tourism" \in txt)
        cur_target == Get(weights, "doc_diversity_target", 2)
        raise      == low_div /\ cur_target < 3
        w1 == IF raise THEN Put(weights, "doc_diversity_target", cur_target + 1)
              ELSE weights
        cur_pen == Get(w1, "irrelevance_penalty_per_hit", 60)
        w2 == IF irrelevant
              THEN Put(Put(w1, "irrelevance_penalty_per_hit", Min2(cur_pen + 10, 150)),
                       "topic_penalties",
                       RaisePenalties(Get(w1, "topic_penalties", NoEntries),
                                      <<"leisure", "tourism", "nightlife">>))
              ELSE w1
    IN  [changed |-> raise \/ irrelevant, weights |-> w2]

(***************************************************************************)
(* The tuners as processes on the shared files.  An invocation reads the   *)
(* weights file, and later writes it: other invocations may run in between.*)
(***************************************************************************)
TunerSlots == {"t1", "t2"}

\* a new invocation takes the first free slot: "t2" only while "t1" is running
CanStart(p) ==
    /\ tpc[p] = "idle"
    /\ started < MaxRuns
    /\ p = "t2" => tpc["t1"] # "idle"

\* a weights file whose values sit just inside their ranges
EdgeWeights ==
    [doc_boost |-> [k \in {"nppf_2024", "dap_2020", "csucp_2015"} |->
                        IF k = "csucp_2015" THEN 81 ELSE 149],
     topic_penalty |-> [k \in {"leisure"} |-> 52],
     topic_penalties |-> [k \in {"leisure", "tourism"} |-> IF k = "leisure" THEN 390 ELSE 400],
     doc_diversity_target |-> 2,
     irrelevance_penalty_per_hit |-> 145,
     max_evidence_items |-> 10]

InitialWeightsFiles == { {}, {NoEntries}, {EdgeWeights} }

\* the records logged: a score text with no warning, with the low-diversity
\* one, with the irrelevance ones
FeedbackLines ==
    { FeedbackRecord({}, {}),
      FeedbackRecord({}, WARN_LOW_DIVERSITY),
      FeedbackRecord({}, LINE_IRRELEVANCE_SIGNALS \cup WARN_UNRELATED) }

Idle == [w |-> NoEntries, low_div |-> FALSE, irrelevant |-> FALSE]

TunerInit ==
    /\ weights_file \in InitialWeightsFiles
    /\ serial = weights_file
    /\ feedback_log = <<>>
    /\ usage_log = <<>>
    /\ tpc = [p \in TunerSlots |-> "idle"]
    /\ tlocal = [p \in TunerSlots |-> Idle]
    /\ started = 0

Content(file) == IF file = {} THEN NoEntries ELSE CHOOSE w \in file : TRUE

\* log_feedback.py: one record of a rendered report's score text is appended
LogFeedback ==
    /\ Len(feedback_log) < MaxFeedback
    /\ \E line \in FeedbackLines : feedback_log' = Append(feedback_log, line)
    /\ UNCHANGED <<weights_file, usage_log, tpc, tlocal, started, serial, dvars, rvars, qvars, lvars, cvars>>

\* auto_tune_weights.py: w = json.loads(...) if the file exists else {}; the
\* score text is read and its warnings are matched
PerRunRead(p) ==
    /\ CanStart(p)
    /\ \E low_div \in BOOLEAN, irrelevant \in BOOLEAN :
         tlocal' = [tlocal EXCEPT ![p] = [w |-> Content(weights_file), low_div |-> low_div,
                                          irrelevant |-> irrelevant]]
    /\ tpc' = [tpc EXCEPT ![p] = "pr_loaded"]
    /\ started' = started + 1
    /\ UNCHANGED <<weights_file, feedback_log, usage_log, serial, dvars, rvars, qvars, lvars, cvars>>

\* ... the adjusted w is written back
PerRunWrite(p) ==
    /\ tpc[p] = "pr_loaded"
    /\ LET w == AutoTune(tlocal[p].w, tlocal[p].low_div, tlocal[p].irrelevant)
       IN  /\ weights_file' = {w}
           /\ tlocal' = [tlocal EXCEPT ![p].w = w]
    /\ serial' = {AutoTune(Content(serial), tlocal[p].low_div, tlocal[p].irrelevant)}
    /\ tpc' = [tpc EXCEPT ![p] = "pr_written"]
    /\ UNCHANGED <<feedback_log, usage_log, started, dvars, rvars, qvars, lvars, cvars>>

\* ... and one row is appended to the usage log (the payload in hand has a
\* report object)
PerRunLog(p) ==
    /\ tpc[p] = "pr_written"
    /\ usage_log' = Append(usage_log,
                           [flags |-> [low_doc_diversity |-> tlocal[p].low_div,
                                       irrelevance |-> tlocal[p].irrelevant],
                            weights_after |-> tlocal[p].w])
    /\ tpc' = [tpc EXCEPT ![p] = "idle"]
    /\ tlocal' = [tlocal EXCEPT ![p] = Idle]
    /\ UNCHANGED <<weights_file, feedback_log, started, serial, dvars, rvars, qvars, lvars, cvars>>

\* update_weights_from_feedback.py: with no weights file the run ends (SystemExit)
BatchMissing(p) ==
    /\ CanStart(p)
    /\ weights_file = {}
    /\ started' = started + 1
    /\ UNCHANGED <<weights_file, feedback_log, usage_log, tpc, tlocal, serial, dvars, rvars, qvars, lvars, cvars>>

\* ... otherwise the weights are loaded
BatchRead(p) ==
    /\ CanStart(p)
    /\ weights_file # {}
    /\ tlocal' = [tlocal EXCEPT ![p] = [w |-> Content(weights_file), low_div |-> FALSE,
                                        irrelevant |-> FALSE]]
    /\ tpc' = [tpc EXCEPT ![p] = "bt_loaded"]
    /\ started' = started + 1
    /\ UNCHANGED <<weights_file, feedback_log, usage_log, serial, dvars, rvars, qvars, lvars, cvars>>

\* ... the feedback log is read, and the weights are written if they changed
BatchDecide(p) ==
    /\ tpc[p] = "bt_loaded"
    /\ \E min_records \in {1, DEFAULT_MIN_RECORDS} :
         LET r == UpdateWeights(tlocal[p].w, feedback_log, min_records)
             g == UpdateWeights(Content(serial), feedback_log, min_records)
         IN  /\ weights_file' = IF r.changed THEN {r.weights} ELSE weights_file
             /\ serial' = IF g.changed THEN {g.weights} ELSE serial
    /\ tpc' = [tpc EXCEPT ![p] = "idle"]
    /\ tlocal' = [tlocal EXCEPT ![p] = Idle]
    /\ UNCHANGED <<feedback_log, usage_log, started, dvars, rvars, qvars, lvars, cvars>>

TunerNext ==
    \/ LogFeedback
    \/ \E p \in TunerSlots :
         \/ PerRunRead(p)
         \/ PerRunWrite(p)
         \/ PerRunLog(p)
         \/ BatchMissing(p)
         \/ BatchRead(p)
         \/ BatchDecide(p)

(***************************************************************************)
(* scripts/score_report_quality.py  (the quality scorer), and the per-run   *)
(* tuner's reading of the text it prints.                                  *)
(*                                                                         *)
(* A printed text is the set of the phrases, of those a tuner looks for,   *)
(* that occur in its lower-cased form.                                     *)
(***************************************************************************)
C3_TERMS ==
    {"c3", "dwellinghouse", "dwelling", "residential", "housing", "amenity", "privacy",
     "outlook", "noise", "refuse", "cycle", "parking", "design", "character", "heritage",
     "conservation", "materials", "windows", "doors", "floor", "internal", "alterations",
     "change of use", "use class"}

BAD_SIGNALS == {"leisure", "tourism", "nightclub", "cinema", "museum", "arena"}

\* term_hits(text, terms): the number of the terms that occur in the text
term_hits(text, terms) == Cardinality(terms \cap text)

\* blob = " ".join([snippet, text])
Blob(e) == e.snippet \cup e.text

\* main(), from the parsed payload to what it computes and prints; a payload
\* whose "report" is null makes payload.get("report", {}).get(...) raise
score_report_quality(payload) ==
    IF payload.report = "null" THEN [raised |-> TRUE]
    ELSE
    LET ev   == payload.policy.evidence
        cits == payload.policy.citations
        doc_keys == {cits[i].doc_key : i \in 1..Len(cits)} \ {""}
        doc_div  == Cardinality(doc_keys)
        top == Take(ev, 10)
        rel_scores == [i \in 1..Len(top) |-> term_hits(Blob(top[i]), C3_TERMS)]
        bad_scores == [i \in 1..Len(top) |-> term_hits(Blob(top[i]), BAD_SIGNALS)]
        rel_sum == SumSeq(rel_scores)
        bad_sum == SumSeq(bad_scores)
        score == Max2(0, Min2(100, 50 + Min2(30, rel_sum * 2) + Min2(10, doc_div * 3)
                                      - Min2(30, bad_sum * 5)))
        printed == (IF bad_sum # 0 THEN LINE_IRRELEVANCE_SIGNALS ELSE {})
                   \cup (IF doc_div < 2 THEN WARN_LOW_DIVERSITY ELSE {})
                   \cup (IF rel_sum < 5 THEN WARN_LOW_RELEVANCE ELSE {})
                   \cup (IF bad_sum >= 1 THEN WARN_UNRELATED ELSE {})
    IN  [raised |-> FALSE, score |-> score, doc_div |-> doc_div,
         rel_scores |-> rel_scores, bad_scores |-> bad_scores, printed |-> printed]

\* the per-run tuner matching another wording of the diversity warning
TunerFlags_otherwording(tl) ==
    [low_div    |-> "low diversity" \in tl,
     irrelevant |-> ("irrelevance signals detected" \in tl)
                    \/ ("some evidence looks unrelated" \in tl)]

\* auto_tune_weights.py: low_div and irrelevant, from the lower-cased score text
TunerFlags(tl) ==
    [low_div    |-> "low document diversity" \in tl,
     irrelevant |-> ("irrelevance signals detected" \in tl)
                    \/ ("some evidence looks unrelated" \in tl)]

\* the evidence items of a scored payload, by the terms their text holds
ScoredItems ==
    { [snippet |-> {}, text |-> {}],
      [snippet |-> {"privacy"}, text |-> {}],
      [snippet |-> {}, text |-> {"dwellinghouse", "dwelling", "residential", "amenity",
                                 "privacy", "design", "materials", "windows"}],
      [snippet |-> {}, text |-> {"leisure"}],
      [snippet |-> {"cinema", "museum"},
       text |-> {"leisure", "tourism", "nightclub", "arena"}] }

\* evidence lists longer than the ten items the scorer reads: ten plain items
\* and one about leisure, first or last
LongEvidenceLists ==
    { [i \in 1..11 |-> IF i = k THEN [snippet |-> {}, text |-> {"leisure"}]
                                ELSE [snippet |-> {}, text |-> {}]] : k \in {1, 11} }

ScoredDocKeys == {"", "dap_2020", "nppf_2024"}

ScoredCitationLists ==
    { [i \in 1..Len(ks) |-> [doc_key |-> ks[i]]] : ks \in SeqsUpTo(ScoredDocKeys, MaxScored) }
    \cup { <<[doc_key |-> "dap_2020"], [doc_key |-> "nppf_2024"], [doc_key |-> "csucp_2015"],
             [doc_key |-> "spd_2019"]>> }

\* the payloads written by the report entry point: "report" is an object, or
\* null when the entry point stopped for want of evidence
ScoredPayloads ==
    { [policy |-> [citations |-> c, evidence |-> e], report |-> r] :
        c \in ScoredCitationLists,
        e \in SeqsUpTo(ScoredItems, MaxScored) \cup LongEvidenceLists,
        r \in {"object", "null"} }

ScorerInit ==
    /\ qpc = "start"
    /\ q_payload = [policy |-> [citations |-> <<>>, evidence |-> <<>>], report |-> "object"]
    /\ q_report = [raised |-> FALSE]
    /\ q_tuned = [flags |-> [low_div |-> FALSE, irrelevant |-> FALSE], weights |-> NoEntries]

\* the scorer is run on a payload
ScoreReport ==
    /\ qpc = "start"
    /\ \E payload \in ScoredPayloads :
         /\ q_payload' = payload
         /\ q_report' = score_report_quality(payload)
    /\ qpc' = "scored"
    /\ UNCHANGED <<q_tuned, dvars, rvars, tvars, lvars, cvars>>

\* the per-run tuner is run on the text the scorer printed, with no weights file
TuneFromScore ==
    /\ qpc = "scored"
    /\ ~q_report.raised
    /\ LET flags == TunerFlags(q_report.printed)
       IN  q_tuned' = [flags |-> flags,
                       weights |-> AutoTune(NoEntries, flags.low_div, flags.irrelevant)]
    /\ qpc' = "tuned"
    /\ UNCHANGED <<q_payload, q_report, dvars, rvars, tvars, lvars, cvars>>

ScorerNext == ScoreReport \/ TuneFromScore

(***************************************************************************)
(* The components that load the weights store, each run once against a     *)
(* store that is absent, unparseable, or a JSON object:                    *)
(* scripts/render_council_report.py, scripts/render_case_officer_report.py,*)
(* scripts/auto_tune_weights.py, scripts/update_weights_from_feedback.py.  *)
(***************************************************************************)
\* the weights file as a component finds it: absent, present with content
\* that json.loads rejects, or present with a JSON object
StoreAbsent == [kind |-> "absent", object |-> NoEntries]

StoreUnparseable == [kind |-> "unparseable", object |-> NoEntries]

StoreObject(w) == [kind |-> "object", object |-> w]

Unparseable(file) == file.kind = "unparseable"

\* a weights file whose batch-tuned values all sit on their caps
CappedWeights ==
    [topic_penalties |-> [k \in {"leisure", "tourism", "nightlife"} |-> 400],
     doc_diversity_target |-> 3,
     irrelevance_penalty_per_hit |-> 150]

StoresFound ==
    { StoreAbsent, StoreUnparseable, StoreObject(NoEntries), StoreObject(EdgeWeights),
      StoreObject(CappedWeights),
      StoreObject([doc_diversity_target |-> 1, max_evidence_items |-> 1]) }

\* the feedback logs a batch run finds: short logs of the records above and
\* of a record whose score text is clean and whose proposal text names a
\* leisure/tourism use, and logs of eleven records, clean but for the
\* irrelevance warnings in the first or in the last
FeedbackLogsFound ==
    SeqsUpTo(FeedbackLines \cup {FeedbackRecord({"leisure/tourism"}, {})}, MaxScored)
    \cup
    { [i \in 1..11 |-> IF i = k
                       THEN FeedbackRecord({}, LINE_IRRELEVANCE_SIGNALS \cup WARN_UNRELATED)
                       ELSE FeedbackRecord({}, {})] : k \in {1, 11} }

MSG_WROTE_REPORT == "OK: wrote"
MSG_UPDATED      == "OK: updated"
MSG_NO_CHANGE    == "No change triggered by recent feedback."
MSG_NOT_ENOUGH   == "Not enough feedback records"
ERR_JSON         == "json.JSONDecodeError"
ERR_MISSING      == "Missing weights file"
ERR_ATTRIBUTE    == "AttributeError"

\* render_case_officer_report.load_weights(), and the same lines of
\* render_council_report.main(): {} when the file is absent, and {} when
\* json.loads raises
renderer_load_weights(file) ==
    IF file.kind = "absent" THEN NoEntries
    ELSE IF Unparseable(file) THEN NoEntries
    ELSE file.object

\* a renderer's run: read the payload, load the weights, rerank the payload's
\* policy evidence (the case officer renderer only when there is any), read
\* the report's decision and write the report.  data is the payload: its
\* report is {} for JSON null and {r} for the object r.
render_report(component, file, data) ==
    LET policy    == Get(data, "policy", [citations |-> <<>>, evidence |-> <<>>])
        citations == policy.citations
        evidence  == policy.evidence
        weights == renderer_load_weights(file)
        skip    == component = "render_case_officer_report"
                   /\ citations = <<>> /\ evidence = <<>>
        ranked  == IF skip THEN [citations |-> citations, evidence |-> evidence]
                   ELSE rerank_policy(citations, evidence, weights)
        used    == IF skip THEN {} ELSE {load_weights(weights)}
    IN  IF component = "render_council_report" /\ data.report = {}
        THEN \* report = data.get("report", {}) is None: report.get raises
             [stopped |-> TRUE, printed |-> {ERR_ATTRIBUTE}, loaded |-> {weights},
              used |-> used, evidence |-> ranked.evidence, decision |-> {},
              wrote |-> FALSE, file_after |-> file]
        ELSE
        LET \* the case officer renderer reads (data.get("report", {}) or {})
            report   == IF data.report = {} THEN NoEntries ELSE Content(data.report)
            decision == Get(report, "decision", "needs_officer_review")
        IN  [stopped |-> FALSE, printed |-> {MSG_WROTE_REPORT}, loaded |-> {weights},
             used |-> used, evidence |-> ranked.evidence, decision |-> {decision},
             wrote |-> FALSE, file_after |-> file]

\* the row auto_tune_weights.py appends to the usage log
UsageRow(low_div, irrelevant, w) ==
    [flags |-> [low_doc_diversity |-> low_div, irrelevance |-> irrelevant],
     weights_after |-> w]

\* auto_tune_weights.main(), run alone: json.loads raises on an unparseable
\* file; the weights are written, then the row is built, and building it
\* raises when the payload's report is null (report = {}); then it is appended
auto_tune_weights(file, low_div, irrelevant, report, log) ==
    IF Unparseable(file)
    THEN [stopped |-> TRUE, printed |-> {ERR_JSON}, loaded |-> {}, used |-> {},
          evidence |-> <<>>, decision |-> {}, wrote |-> FALSE, file_after |-> file,
          log_after |-> log]
    ELSE LET w == AutoTune(file.object, low_div, irrelevant)
         IN  IF report = {}
             THEN [stopped |-> TRUE, printed |-> {ERR_ATTRIBUTE}, loaded |-> {file.object},
                   used |-> {}, evidence |-> <<>>, decision |-> {},
                   wrote |-> TRUE, file_after |-> StoreObject(w), log_after |-> log]
             ELSE [stopped |-> FALSE, printed |-> {MSG_UPDATED}, loaded |-> {file.object},
                   used |-> {}, evidence |-> <<>>, decision |-> {},
                   wrote |-> TRUE, file_after |-> StoreObject(w),
                   log_after |-> Append(log, UsageRow(low_div, irrelevant, w))]

\* update_weights_from_feedback.main(), run alone
update_weights_from_feedback(file, lines, min_records) ==
    IF file.kind = "absent"
    THEN [stopped |-> TRUE, printed |-> {ERR_MISSING}, loaded |-> {}, used |-> {},
          evidence |-> <<>>, decision |-> {}, wrote |-> FALSE, file_after |-> file]
    ELSE IF Unparseable(file)
    THEN [stopped |-> TRUE, printed |-> {ERR_JSON}, loaded |-> {}, used |-> {},
          evidence |-> <<>>, decision |-> {}, wrote |-> FALSE, file_after |-> file]
    ELSE LET r == UpdateWeights(file.object, lines, min_records)
         IN  [stopped |-> FALSE,
              printed |-> IF Len(lines) < min_records THEN {MSG_NOT_ENOUGH}
                          ELSE IF r.changed THEN {MSG_UPDATED} ELSE {MSG_NO_CHANGE},
              loaded |-> {file.object}, used |-> {}, evidence |-> <<>>,
              decision |-> {}, wrote |-> r.changed,
              file_after |-> IF r.changed THEN StoreObject(r.weights) ELSE file]

Renderers == {"render_council_report", "render_case_officer_report"}

\* the payloads a renderer is given: those generate_report_payload returns
\* when it stops for want of a proposal or of policy evidence, and payloads
\* that carry policy evidence and a report
RenderedPayloads ==
    { generate_report_payload(p, b) :
        p \in Proposals, b \in {x \in ProviderBlocks : (~x.ok) \/ x.results = <<>>} }
    \cup
    { [ok |-> TRUE, reason |-> {},
       policy |-> [ok |-> TRUE, citations |-> <<>>, evidence |-> e],
       report |-> {[decision |-> d, confidence |-> 58, draft_conditions |-> <<>>]}] :
        e \in SeqsUpTo(RerankItems, MaxScored),
        d \in {"approve_with_conditions", "needs_officer_review"} }

LoadInit ==
    /\ lpc = "start"
    /\ l_run = [component |-> "none", file |-> StoreAbsent]
    /\ l_out = [stopped |-> FALSE, printed |-> {}, loaded |-> {}, used |-> {},
                evidence |-> <<>>, decision |-> {}, wrote |-> FALSE,
                file_after |-> StoreAbsent]

RunRenderer ==
    /\ lpc = "start"
    /\ \E component \in Renderers, file \in StoresFound, data \in RenderedPayloads :
         /\ l_run' = [component |-> component, file |-> file, data |-> data]
         /\ l_out' = render_report(component, file, data)
    /\ lpc' = "done"
    /\ UNCHANGED <<dvars, rvars, tvars, qvars, cvars>>

\* the usage logs a per-run run finds: empty, or with one earlier row
UsageLogsFound == { <<>>, <<UsageRow(TRUE, FALSE, NoEntries)>> }

\* the report of the payload a per-run run is given: null, or an object
PayloadReports == { {}, {[decision |-> "approve_with_conditions"]} }

RunPerRunTuner ==
    /\ lpc = "start"
    /\ \E file \in StoresFound, low_div \in BOOLEAN, irrelevant \in BOOLEAN,
          report \in PayloadReports, log \in UsageLogsFound :
         /\ l_run' = [component |-> "auto_tune_weights", file |-> file,
                      low_div |-> low_div, irrelevant |-> irrelevant,
                      report |-> report, log |-> log]
         /\ l_out' = auto_tune_weights(file, low_div, irrelevant, report, log)
    /\ lpc' = "done"
    /\ UNCHANGED <<dvars, rvars, tvars, qvars, cvars>>

RunBatchTuner ==
    /\ lpc = "start"
    /\ \E file \in StoresFound, lines \in FeedbackLogsFound,
          min_records \in {1, DEFAULT_MIN_RECORDS} :
         /\ l_run' = [component |-> "update_weights_from_feedback", file |-> file,
                      lines |-> lines, min_records |-> min_records]
         /\ l_out' = update_weights_from_feedback(file, lines, min_records)
    /\ lpc' = "done"
    /\ UNCHANGED <<dvars, rvars, tvars, qvars, cvars>>

LoadNext == RunRenderer \/ RunPerRunTuner \/ RunBatchTuner

(***************************************************************************)
(* The tuning loop: tuner runs made one after the other, each finding both *)
(* warnings.  Only the weights file is followed here; the rows the runs    *)
(* append to their logs are not kept.                                      *)
(***************************************************************************)
\* a feedback log of DEFAULT_MIN_RECORDS records, each with both warnings
WarningLog ==
    [i \in 1..DEFAULT_MIN_RECORDS |->
        FeedbackRecord({}, WARN_LOW_DIVERSITY \cup LINE_IRRELEVANCE_SIGNALS
                           \cup WARN_UNRELATED)]

ConvergeInit == c_store \in InitialWeightsFiles

\* auto_tune_weights.py on a score text with both warnings
TriggeredPerRun ==
    /\ c_store' = {AutoTune(Content(c_store), TRUE, TRUE)}
    /\ UNCHANGED <<dvars, rvars, tvars, qvars, lvars>>

\* update_weights_from_feedback.py on a log with both warnings (it ends at
\* once when there is no weights file)
TriggeredBatch ==
    /\ c_store # {}
    /\ LET r == UpdateWeights(Content(c_store), WarningLog, DEFAULT_MIN_RECORDS)
       IN  c_store' = IF r.changed THEN {r.weights} ELSE c_store
    /\ UNCHANGED <<dvars, rvars, tvars, qvars, lvars>>

ConvergeNext == TriggeredPerRun \/ TriggeredBatch

(***************************************************************************)
(* The specifications: one per component, the others standing still.       *)
(***************************************************************************)
vars == <<dvars, rvars, tvars, qvars, lvars, cvars>>

Init == DecisionInit /\ RerankInit /\ TunerInit /\ ScorerInit /\ LoadInit /\ ConvergeInit

\* the decision pipeline and the reranker never read the weights file themselves
InitNoWeightsFile == Init /\ weights_file = {}

SpecDecision == InitNoWeightsFile /\ [][DecisionNext]_vars

SpecRerank == InitNoWeightsFile /\ [][RerankNext]_vars

SpecTuner == Init /\ [][TunerNext]_vars

SpecScorer == InitNoWeightsFile /\ [][ScorerNext]_vars

SpecLoad == InitNoWeightsFile /\ [][LoadNext]_vars

\* both kinds of run go on being made for as long as they change the store
SpecConverge ==
    /\ InitNoWeightsFile
    /\ [][ConvergeNext]_vars
    /\ WF_vars(TriggeredPerRun)
    /\ WF_vars(TriggeredBatch)

(***************************************************************************)
(* Properties of the decision pipeline (checked under SpecDecision).       *)
(***************************************************************************)
Decided(fns) == dpc = "decided" /\ call.fn \in fns

DecisionEntryPoints == {"make_recommendation", "weigh_balance", "generate_report_payload"}

\* The outcome recommends nothing beyond insufficient_evidence: its decision is
\* insufficient_evidence, or (generate_report_payload) it carries no report at all.
IsInsufficient(out) ==
    IF "decision" \in DOMAIN out THEN out.decision = "insufficient_evidence"
    ELSE out.report = {}

\* the items of a policy block as the entry points read them
BlockItems(b) == IF b.evidence # <<>> THEN b.evidence ELSE b.results

\* C1: gate monotonicity.  Whenever a decision entry point is called with a
\* policy block whose ok flag is false, the outcome is insufficient_evidence,
\* whatever the scores, the number of results, the proposal or the precedents.
C1_GateMonotonicity ==
    (Decided(DecisionEntryPoints) /\ ~call.policy_block.ok) => IsInsufficient(outcome)

\* C4: every insufficient_evidence outcome of make_recommendation and of
\* weigh_balance carries a confidence value, and that value is at most 0.25.
C4_InsufficientConfidenceCapped ==
    (Decided({"make_recommendation", "weigh_balance"})
        /\ outcome.decision = "insufficient_evidence")
    => ("confidence" \in DOMAIN outcome /\ outcome.confidence <= 25)

\* C5: a policy result set with fewer than 3 items yields insufficient_evidence
\* from every decision entry point, however high the scores present.  (Stated
\* for the blocks the provider reported ok; the blocks it did not are C1's.)
C5_UndersizedIsHardStop ==
    (Decided(DecisionEntryPoints) /\ call.policy_block.ok
        /\ Len(BlockItems(call.policy_block)) < 3)
    => IsInsufficient(outcome)

\* C10: the gate returns ok exactly when the provider reported ok and returned
\* at least min_results results; a failed gate has no citations and no
\* evidence; a passed gate has one citation per result, in the results' order.
C10_GateContract ==
    \A g \in gate_in :
        LET in == g.retrieval_out
        IN  /\ block.ok <=> (in.ok /\ Len(in.results) >= g.min_results)
            /\ ~block.ok => (block.citations = <<>> /\ block.evidence = <<>>)
            /\ block.ok =>
                 /\ block.evidence = in.results
                 /\ Len(block.citations) = Len(in.results)
                 /\ \A i \in 1..Len(in.results) :
                      /\ block.citations[i].doc_key = in.results[i].doc_key
                      /\ block.citations[i].paragraph_ref = in.results[i].paragraph_ref
                      /\ block.citations[i].score = in.results[i].score

\* C10 witness: the gate passed a provider block of exactly min_results = 3
\* results, the first two from different documents.
C10_Witness_Passed ==
    \E g \in gate_in :
        /\ dpc = "gated" /\ block.ok
        /\ Len(g.retrieval_out.results) = g.min_results
        /\ g.min_results = 3
        /\ block.citations[1].doc_key # block.citations[2].doc_key

\* the reasons a failed evidence gate may give
GATE_REASONS == {"no_policy_results", "policy_results_too_few", "policy_scores_too_low",
                 "insufficient_policy_evidence"}

\* C11: whenever the evidence gate reports ok=false, its reason is one of
\* no_policy_results, policy_results_too_few, policy_scores_too_low and
\* insufficient_policy_evidence, whatever reason (or none) the provider gave.
C11_GateReasonVocabulary ==
    /\ (dpc = "gated" /\ ~block.ok) => (block.reason # {} /\ block.reason \subseteq GATE_REASONS)
    /\ (Decided({"generate_report_payload"}) /\ call.proposal_text.kind = "text"
           /\ ~outcome.ok)
       => (outcome.reason # {} /\ outcome.reason \subseteq GATE_REASONS)

\* the harm phrases looked for in the proposal, the amenity-harm terms looked
\* for in a refused precedent's reasons
HARM_PHRASES == {"loss of light", "overlooking", "overbearing", "unacceptable"}
AMENITY_HARM_TERMS == {"loss of daylight", "overbearing", "privacy", "overlooking"}

CaseResults(c) == IF c = {} THEN <<>> ELSE (CHOOSE b \in c : TRUE).results

\* make_recommendation was called with strong policy evidence, ok precedent
\* evidence, a harm phrase in the proposal, and a refused precedent at one of
\* the positions up to n whose reasons mention an amenity-harm term
RefusalCase(n) ==
    /\ Decided({"make_recommendation"})
    /\ _policy_strength(call.policy_block).ok
    /\ _case_strength(call.case_block).ok
    /\ AnyIn(HARM_PHRASES, Lower(call.proposal_text))
    /\ \E i \in 1..Min2(n, Len(CaseResults(call.case_block))) :
         LET c == CaseResults(call.case_block)[i]
         IN  c.decision = "Refused" /\ AnyIn(AMENITY_HARM_TERMS, c.reasons_text)

IsRefusal(out) ==
    /\ out.decision = "refuse"
    /\ out.draft_conditions = <<>>
    /\ out.draft_refusal_reasons # <<>>

\* C12 as claimed: strong policy evidence, ok precedents, a harm phrase in the
\* proposal and a refused precedent (any of them) whose reasons mention an
\* amenity-harm term give refuse, no conditions, and a refusal reason.
C12_Original_RefuseOnAnyPrecedent ==
    RefusalCase(Len(CaseResults(call.case_block))) => IsRefusal(outcome)

\* C12 as amended: the same, for a refused precedent among the first five
\* results of the precedent block (the tilt looks at no other).
C12_RefuseOnTopFivePrecedent == RefusalCase(5) => IsRefusal(outcome)

\* C12 witness: a refusal made on the first of six precedents.
C12_Witness_Refused ==
    /\ RefusalCase(5) /\ IsRefusal(outcome)
    /\ Len(CaseResults(call.case_block)) = 6
    /\ outcome.draft_refusal_reasons = <<REFUSAL_AMENITY>>

\* the precedent block is absent, not ok, empty, or its five best scores
\* average below 2.0
WeakPrecedents(c) ==
    \/ c = {}
    \/ \E b \in c : \/ ~b.ok
                    \/ b.results = <<>>
                    \/ AvgLess(_avg_top_scores(b.results, 5), 20)

\* C13: with require_precedent set and a precedent block that is absent, not
\* ok, empty or of top-5 average below 2.0, make_recommendation returns
\* insufficient_evidence with no draft conditions and no draft refusal reasons,
\* however strong the policy evidence.
C13_PrecedentRequired ==
    (Decided({"make_recommendation"}) /\ call.require_precedent
        /\ WeakPrecedents(call.case_block))
    => /\ outcome.decision = "insufficient_evidence"
       /\ outcome.draft_conditions = <<>>
       /\ outcome.draft_refusal_reasons = <<>>

\* C13 witness: strong policy evidence, and an ok precedent block whose only
\* result scores 1.0, stopped for the precedents' scores.
C13_Witness_StrongPolicyWeakPrecedent ==
    /\ Decided({"make_recommendation"}) /\ call.require_precedent
    /\ call.policy_block.ok /\ Len(BlockItems(call.policy_block)) = 3
    /\ ~AvgLess(_avg_top_scores(BlockItems(call.policy_block), 6), 40)
    /\ \E b \in call.case_block : b.ok /\ Len(b.results) = 1 /\ b.results[1].score = 10
    /\ outcome.decision = "insufficient_evidence"
    /\ outcome.reason = {<<"precedent_retrieval_weak", "case_scores_too_low">>}

\* the sum, the number and the greatest of the scores of the results handed
\* to the score-only entry point
WBResults == call.policy_block.results
WBSum == SumSeq([i \in 1..Len(WBResults) |-> WBResults[i].score])
WBTop == CHOOSE s \in {WBResults[i].score : i \in 1..Len(WBResults)} :
            \A i \in 1..Len(WBResults) : WBResults[i].score <= s

\* C14: weigh_balance on a non-empty result set returns approve_with_conditions
\* with confidence 0.70 exactly when the average score is at least 4.0 and the
\* top score at least 4.5; otherwise insufficient_evidence with confidence 0.25
\* exactly when the average is below 2.5; otherwise needs_officer_review with
\* confidence 0.45.
C14_ScoreOnlyThresholds ==
    (Decided({"weigh_balance"}) /\ WBResults # <<>>) =>
        LET n      == Len(WBResults)
            strong == WBSum >= 40 * n /\ WBTop >= 45
            weak   == WBSum < 25 * n
        IN  /\ strong => outcome.decision = "approve_with_conditions" /\ outcome.confidence = 70
            /\ (~strong /\ weak) =>
                  outcome.decision = "insufficient_evidence" /\ outcome.confidence = 25
            /\ (~strong /\ ~weak) =>
                  outcome.decision = "needs_officer_review" /\ outcome.confidence = 45

\* C14 witness: three results of scores 3.0, 4.0 and 5.0 in some order, their
\* average exactly 4.0, approved with conditions at confidence 0.70.
C14_Witness_AtTheThreshold ==
    /\ Decided({"weigh_balance"}) /\ Len(WBResults) = 3
    /\ WBSum = 120 /\ WBTop = 50
    /\ outcome.decision = "approve_with_conditions" /\ outcome.confidence = 70

\* C15: with no precedent evidence supplied (case_block absent,
\* require_precedent false) make_recommendation returns the decision that the
\* score-only mode (weigh_balance) returns for the same proposal and policy
\* block.  (Stated for the blocks the provider reported ok with at least 3
\* results; the others are C1's and C5's.)
C15_ModesAgreeWithoutPrecedents ==
    (Decided({"make_recommendation"}) /\ call.case_block = {} /\ ~call.require_precedent
        /\ call.policy_block.ok /\ Len(BlockItems(call.policy_block)) >= 3)
    => outcome.decision = weigh_balance(call.proposal_text, call.policy_block).decision

\* the keyword groups of the issue tagging, by tag
ISSUE_GROUPS ==
    [householder |-> HOUSEHOLDER_WORDS, amenity |-> AMENITY_WORDS, design |-> DESIGN_WORDS,
     heritage |-> HERITAGE_WORDS, highways |-> HIGHWAYS_WORDS, flood |-> FLOOD_WORDS,
     trees |-> TREES_WORDS]

\* the tag set of a proposal text: the tags of the groups with a keyword in
\* it, or {general} when there is none
IssueTags(proposal_text) ==
    LET matched == {g \in DOMAIN ISSUE_GROUPS : AnyIn(ISSUE_GROUPS[g], Lower(proposal_text))}
    IN  IF matched = {} THEN {"general"} ELSE matched

\* C16: every outcome of make_recommendation and of weigh_balance, on every
\* branch, carries a non-empty issues list without duplicates that holds the
\* tags of the proposal text: {general} when no keyword group matches.
C16_IssuesOnEveryOutcome ==
    Decided({"make_recommendation", "weigh_balance"}) =>
        /\ "issues" \in DOMAIN outcome
        /\ outcome.issues # <<>>
        /\ \A i, j \in 1..Len(outcome.issues) : i # j => outcome.issues[i] # outcome.issues[j]
        /\ {outcome.issues[i] : i \in 1..Len(outcome.issues)} = IssueTags(call.proposal_text)

\* C17: with an empty or missing proposal text, make_recommendation and
\* generate_report_payload return (they do not raise) an outcome on the
\* lowest-confidence branch, insufficient_evidence, tagged {general} where the
\* outcome has tags, even when the policy evidence is strong.
C17_EmptyProposalDegrades ==
    (Decided({"make_recommendation", "generate_report_payload"})
        /\ call.proposal_text.kind \in {"missing", "blank"})
    => /\ IsInsufficient(outcome)
       /\ "issues" \in DOMAIN outcome => outcome.issues = <<"general">>

\* the policy evidence is strong: the block is ok, holds at least three
\* items, and its six best scores average at least 3.0
StrongPolicy(b) ==
    /\ b.ok
    /\ Len(BlockItems(b)) >= 3
    /\ ~AvgLess(_avg_top_scores(BlockItems(b), 6), 30)

C29_NeverPlainApprove ==
    Decided({"make_recommendation"}) =>
        /\ outcome.decision \in {"insufficient_evidence", "refuse", "approve_with_conditions"}
        /\ outcome.decision = "approve_with_conditions" =>
               COND_PLANS \in Range(outcome.draft_conditions)
        /\ (StrongPolicy(call.policy_block)
              /\ ~(call.require_precedent /\ WeakPrecedents(call.case_block))
              /\ outcome.decision # "refuse")
             => outcome.decision = "approve_with_conditions"

\* C29 witness: a proposal that names neither materials nor privacy, on
\* strong policy evidence and with no precedents: approve_with_conditions,
\* with the approved-plans condition alone.
C29_Witness_PlansConditionAlone ==
    /\ Decided({"make_recommendation"})
    /\ call.case_block = {} /\ call.proposal_text.phrases = {"rear extension"}
    /\ outcome.decision = "approve_with_conditions"
    /\ outcome.draft_conditions = <<COND_PLANS>>

(***************************************************************************)
(* Properties of the reranker (checked under SpecRerank).                  *)
(***************************************************************************)
Reranked == rpc \in {"once", "twice"}

RerankW == load_weights(rr_in.weights)

DocKeys(evidence) == {evidence[i].doc_key : i \in 1..Len(evidence)}

\* the score the reranker gives an item of its input
InputScore(e) == score_item(e.text, e.score, e.doc_key, RerankW)

\* the first n returned items come from n different documents, and each is a
\* highest-scoring item of its document
FirstAreBestOfDistinctDocs(n) ==
    /\ Len(rr_out.evidence) >= n
    /\ \A i, j \in 1..n : i # j => rr_out.evidence[i].doc_key # rr_out.evidence[j].doc_key
    /\ \A i \in 1..n : \A k \in 1..Len(rr_in.evidence) :
          rr_in.evidence[k].doc_key = rr_out.evidence[i].doc_key
          => ~RLess(RerankScore(rr_out.evidence[i]), InputScore(rr_in.evidence[k]))

\* C6: the returned evidence has at most max_evidence_items items, for every
\* evidence list and weights (max_evidence_items < doc_diversity_target too).
C6_AtMostMaxItems ==
    Reranked => Len(rr_out.evidence) <= RerankW.max_evidence_items

\* C7 as claimed: if the input has at least doc_diversity_target distinct
\* doc_key values, the first doc_diversity_target returned items have pairwise
\* distinct doc_keys, each the highest-scoring item of its document.
C7_Original_DistinctDocKeys ==
    (Reranked /\ Cardinality(DocKeys(rr_in.evidence)) >= RerankW.doc_diversity_target)
    => FirstAreBestOfDistinctDocs(RerankW.doc_diversity_target)

\* C7 as amended: the same, when the input has at least doc_diversity_target
\* distinct NON-EMPTY doc_key values (Pass 1 skips an item with no doc_key).
C7_DiversityOfNamedDocs ==
    (Reranked /\ Cardinality(DocKeys(rr_in.evidence) \ {""}) >= RerankW.doc_diversity_target)
    => FirstAreBestOfDistinctDocs(RerankW.doc_diversity_target)

\* C7 witness: three items of two documents, the second-best item overall is of
\* the best item's document, and the diversity pass put the other document's
\* item in front of it.
C7_Witness_DiversityReorders ==
    /\ rpc = "once"
    /\ RerankW.doc_diversity_target = 2
    /\ Len(rr_in.evidence) = 3 /\ Len(rr_out.evidence) = 3
    /\ Cardinality(DocKeys(rr_in.evidence) \ {""}) = 2
    /\ rr_out.evidence[1].doc_key = rr_out.evidence[3].doc_key
    /\ RLess(RerankScore(rr_out.evidence[2]), RerankScore(rr_out.evidence[3]))

\* some two returned evidence items for which no citation was handed in share
\* their (doc_key, paragraph_ref)
SharedSynthesizedKey(citations, out) ==
    \E i, j \in 1..Len(out.evidence) :
        /\ i # j
        /\ CitationKey(out.evidence[i]) = CitationKey(out.evidence[j])
        /\ \A k \in 1..Len(citations) : CitationKey(citations[k]) # CitationKey(out.evidence[i])

\* C8 as claimed: applying rerank_policy to what it returned, under the same
\* weights, returns the same evidence in the same order and the same citations
\* in the same order.
C8_Original_FixedPoint ==
    rpc = "twice" => (rr_again.evidence = rr_out.evidence /\ rr_again.citations = rr_out.citations)

\* C8 as amended: the evidence is always a fixed point (ties included); the
\* citations are a fixed point unless two returned evidence items for which no
\* citation was handed in share a (doc_key, paragraph_ref).
C8_FixedPoint ==
    rpc = "twice" =>
        /\ rr_again.evidence = rr_out.evidence
        /\ ~SharedSynthesizedKey(rr_in.citations, rr_out)
           => rr_again.citations = rr_out.citations

\* C8 witness: a second application to a result with tied scores that the first
\* application had reordered and given a synthesized citation.
C8_Witness_TiesReapplied ==
    /\ rpc = "twice"
    /\ Len(rr_out.evidence) = 3
    /\ rr_out.evidence # [i \in 1..Len(rr_in.evidence) |-> Scored(rr_in.evidence[i], RerankW)]
    /\ RerankScore(rr_out.evidence[2]) = RerankScore(rr_out.evidence[3])
    /\ rr_out.evidence[2].doc_key # rr_out.evidence[3].doc_key
    /\ ~SharedSynthesizedKey(rr_in.citations, rr_out)
    /\ \E i \in 1..3 : rr_out.citations[i] = SynthesizedCitation(rr_out.evidence[i])
                       /\ rr_out.citations[i] \notin Range(rr_in.citations)

\* C9: the returned citations are as many as the returned evidence items; the
\* citation at i has the (doc_key, paragraph_ref) of the evidence item at i; it
\* is an input citation when one has that key, and is built from the evidence
\* item otherwise.
C9_CitationsOneToOne ==
    Reranked =>
        /\ Len(rr_out.citations) = Len(rr_out.evidence)
        /\ \A i \in 1..Len(rr_out.evidence) :
             LET e == rr_out.evidence[i]
                 c == rr_out.citations[i]
                 reusable == {k \in 1..Len(rr_in.citations) :
                                 CitationKey(rr_in.citations[k]) = CitationKey(e)}
             IN  /\ CitationKey(c) = CitationKey(e)
                 /\ reusable # {} => \E k \in reusable : c = rr_in.citations[k]
                 /\ reusable = {} => c = [doc_key |-> e.doc_key,
                                          paragraph_ref |-> e.paragraph_ref,
                                          score |-> RerankScore(e)]

\* C9 witness: one returned citation was reused from the input and another
\* was built, for an item of the same document whose paragraph no input
\* citation has.
C9_Witness_ReusedAndBuilt ==
    /\ rpc = "once"
    /\ \E i, j \in 1..Len(rr_out.evidence) :
         /\ rr_out.citations[i] \in Range(rr_in.citations)
         /\ rr_out.citations[j] \notin Range(rr_in.citations)
         /\ rr_out.evidence[j].doc_key = rr_out.evidence[i].doc_key

\* C27: rerank_policy is a pure function of its inputs: after a call the
\* caller's weights mapping, evidence items and citations hold the keys and
\* values they held before it.
C27_RerankLeavesInputsAlone ==
    Reranked => rr_out.caller = [citations |-> rr_in.citations,
                                 evidence  |-> rr_in.evidence,
                                 weights   |-> rr_in.weights]

(***************************************************************************)
(* Properties of the tuners (checked under SpecTuner).                     *)
(***************************************************************************)
\* the invocations that have read the weights store and not yet written it back
InReadModifyWrite == {p \in TunerSlots : tpc[p] \in {"pr_loaded", "bt_loaded"}}

AllIdle == \A p \in TunerSlots : tpc[p] = "idle"

\* C2: at most one tuner invocation at a time is between its read of the
\* weights store and its write-back, so that once the invocations have ended
\* the store holds the adjustments of all of them (no lost update).  Stated by
\* its result: when every invocation has ended, a per-run tuner among them,
\* the store equals the store that the same invocations produce when each
\* reads what the one before wrote.
C2_NoLostUpdate == AllIdle /\ usage_log # <<>> => weights_file = serial

Values(obj) == {obj[k] : k \in DOMAIN obj}

\* C3: after any tuner runs, from no weights file or one within range, every
\* persisted doc_boost is in [0.80, 1.50], every per-run topic_penalty is in
\* [0.50, 1.00], every batch-tuned topic penalty is at most 4.0,
\* irrelevance_penalty_per_hit is at most 1.5 and doc_diversity_target at most 3.
C3_WeightsWithinBounds ==
    \A w \in weights_file :
        /\ \A v \in Values(Get(w, "doc_boost", NoEntries)) : 80 <= v /\ v <= 150
        /\ \A v \in Values(Get(w, "topic_penalty", NoEntries)) : 50 <= v /\ v <= 100
        /\ \A v \in Values(Get(w, "topic_penalties", NoEntries)) : v <= 400
        /\ Get(w, "irrelevance_penalty_per_hit", 0) <= 150
        /\ Get(w, "doc_diversity_target", 0) <= 3

\* C3 witness: from the weights just inside their ranges, a per-run run with
\* both warnings and a batch run on both warnings have taken place, each step
\* would have overshot its limit, and every adjusted value sits on its limit.
C3_Witness_ClampedAtEveryLimit ==
    /\ AllIdle /\ started = 2 /\ Len(usage_log) = 1
    /\ \E w \in weights_file :
         /\ DOMAIN w = DOMAIN EdgeWeights \cup {"topic_penalty"}
         /\ w.doc_boost["nppf_2024"] = 150 /\ w.doc_boost["dap_2020"] = 150
         /\ w.doc_boost["csucp_2015"] = 80
         /\ w.topic_penalty["leisure"] = 50 /\ w.topic_penalty["tourism"] = 87
         /\ w.topic_penalties["leisure"] = 400 /\ w.topic_penalties["tourism"] = 400
         /\ w.irrelevance_penalty_per_hit = 150
         /\ w.doc_diversity_target = 3

\* the tuned values of a weights object, absent entries read as the tuners
\* read them
DocBoostOf(w, doc) == Get(Get(w, "doc_boost", NoEntries), doc, 100)

TopicPenaltyOf(w, k) == Get(Get(w, "topic_penalty", NoEntries), k, 90)

BatchPenaltyOf(w, k) == Get(Get(w, "topic_penalties", NoEntries), k, 200)

\* a value that only rises towards its bound and stays on it
Up(before, after, bound) == before <= after /\ (before = bound => after = bound)

\* a value that only falls towards its bound and stays on it
Down(before, after, bound) == after <= before /\ (before = bound => after = bound)

PerRunStep(before, after) ==
    /\ Up(DocBoostOf(before, "nppf_2024"), DocBoostOf(after, "nppf_2024"), 150)
    /\ Up(DocBoostOf(before, "dap_2020"), DocBoostOf(after, "dap_2020"), 150)
    /\ Down(DocBoostOf(before, "csucp_2015"), DocBoostOf(after, "csucp_2015"), 80)
    /\ \A k \in Range(WATCH_LIST) :
          Down(TopicPenaltyOf(before, k), TopicPenaltyOf(after, k), 50)

BatchStep(before, after) ==
    /\ Up(Get(before, "doc_diversity_target", 2), Get(after, "doc_diversity_target", 2), 3)
    /\ Up(Get(before, "irrelevance_penalty_per_hit", 60),
          Get(after, "irrelevance_penalty_per_hit", 60), 150)
    /\ \A k \in {"leisure", "tourism", "nightlife"} :
          Up(BatchPenaltyOf(before, k), BatchPenaltyOf(after, k), 400)

\* C22: tuner adjustments are monotone and idempotent at their bounds: the
\* weights a per-run run writes have, against the weights it loaded,
\* nppf_2024 and dap_2020 not lower, csucp_2015 and the watch-list
\* topic_penalty not higher; the weights a batch run writes have
\* doc_diversity_target, irrelevance_penalty_per_hit and the three named
\* topic penalties not lower; and a value loaded on its bound (1.50, 0.80,
\* 0.50, 3, 1.5, 4.0) is written on that bound.
C22_MonotoneAndIdempotentAtBounds ==
    [][\A p \in TunerSlots :
         /\ (tpc[p] = "pr_loaded" /\ tpc'[p] = "pr_written")
                => PerRunStep(tlocal[p].w, Content(weights_file'))
         /\ (tpc[p] = "bt_loaded" /\ tpc'[p] = "idle")
                => \/ weights_file' = weights_file
                   \/ BatchStep(tlocal[p].w, Content(weights_file'))]_vars

\* C22 witness: two per-run runs, each with both warnings, one after the
\* other: the first left the doc boosts and a watch-list penalty on their
\* bounds, and the second wrote them on the same bounds.
C22_Witness_SecondRunAtTheBounds ==
    /\ Len(usage_log) = 2 /\ AllIdle
    /\ \A i \in 1..2 : usage_log[i].flags.low_doc_diversity /\ usage_log[i].flags.irrelevance
    /\ \A i \in 1..2 :
         /\ DocBoostOf(usage_log[i].weights_after, "nppf_2024") = 150
         /\ DocBoostOf(usage_log[i].weights_after, "dap_2020") = 150
         /\ DocBoostOf(usage_log[i].weights_after, "csucp_2015") = 80
         /\ TopicPenaltyOf(usage_log[i].weights_after, "leisure") = 50
    /\ weights_file = {usage_log[2].weights_after}

(***************************************************************************)
(* Properties of the quality scorer (checked under SpecScorer).            *)
(***************************************************************************)
Scored10 == Take(q_payload.policy.evidence, 10)

\* C18: for every payload the scorer's score is
\* clamp(50 + min(30, 2*sum(relevance_hits)) + min(10, 3*doc_diversity)
\*       - min(30, 5*sum(irrelevance_hits)), 0, 100),
\* the hit lists covering the first 10 evidence items at most, and so an
\* integer from 0 to 100.
C18_QualityScoreFormula ==
    qpc \in {"scored", "tuned"} =>
        /\ ~q_report.raised
        /\ Len(q_report.rel_scores) = Len(Scored10)
        /\ Len(q_report.bad_scores) = Len(Scored10)
        /\ LET rel == SumSeq(q_report.rel_scores)
               bad == SumSeq(q_report.bad_scores)
               raw == 50 + (IF 2 * rel > 30 THEN 30 ELSE 2 * rel)
                         + (IF 3 * q_report.doc_div > 10 THEN 10 ELSE 3 * q_report.doc_div)
                         - (IF 5 * bad > 30 THEN 30 ELSE 5 * bad)
           IN  /\ q_report.score = (IF raw < 0 THEN 0 ELSE IF raw > 100 THEN 100 ELSE raw)
               /\ q_report.score \in 0..100


\* C19: the per-run tuner's low-diversity flag is set, and doc_boost adjusted,
\* exactly when the scorer emitted its low-diversity warning (doc_diversity
\* < 2); its irrelevance flag is set, and topic_penalty adjusted, exactly when
\* the scorer found at least one irrelevance hit; both flags are false when
\* the scorer emitted neither.
C19_ScorerTunerCoupling ==
    qpc = "tuned" =>
        LET low_div    == q_report.doc_div < 2
            irrelevant == SumSeq(q_report.bad_scores) >= 1
        IN  /\ q_tuned.flags.low_div <=> low_div
            /\ q_tuned.flags.irrelevant <=> irrelevant
            /\ (q_tuned.weights.doc_boost # NoEntries) <=> low_div
            /\ (q_tuned.weights.topic_penalty # NoEntries) <=> irrelevant

\* C19 witness (Scenario E): one distinct doc_key in the citations and no
\* relevance hit; the diversity and the relevance warnings were printed, the
\* score is at most 53, and the tuner raised the nppf_2024 boost to 1.03 and
\* left the topic penalties alone.
C19_Witness_ScenarioE ==
    /\ qpc = "tuned"
    /\ q_report.doc_div = 1 /\ q_payload.policy.evidence # <<>>
    /\ SumSeq(q_report.rel_scores) = 0
    /\ WARN_LOW_DIVERSITY \cup WARN_LOW_RELEVANCE \subseteq q_report.printed
    /\ q_report.score <= 53
    /\ q_tuned.flags = [low_div |-> TRUE, irrelevant |-> FALSE]
    /\ q_tuned.weights.doc_boost["nppf_2024"] = 103
    /\ q_tuned.weights.topic_penalty = NoEntries


(***************************************************************************)
(* Properties of the renderers and of the loading of the weights store     *)
(* (checked under SpecLoad).                                               *)
(***************************************************************************)
\* the messages that record a problem with the weights file
WeightsWarnings == {ERR_JSON, ERR_MISSING}

\* C20: no component that loads the weights store silently replaces an
\* unparseable file by an empty object: its run stops with an error, or it
\* goes on with the explicit default weights and records a warning; and no
\* tuner overwrites the store then.
C20_MalformedWeightsNotSilent ==
    (lpc = "done" /\ Unparseable(l_run.file)) =>
        /\ \/ l_out.stopped /\ l_out.printed \cap WeightsWarnings # {}
           \/ /\ l_out.printed \cap WeightsWarnings # {}
              /\ l_out.loaded # {NoEntries}
        /\ l_out.file_after = l_run.file


\* C21: a payload of a failed evidence gate (ok false, report null) is never
\* rendered with a recommended decision other than insufficient_evidence.
C21_GateFailureNotUpgraded ==
    (lpc = "done" /\ l_run.component \in Renderers
                  /\ (~l_run.data.ok) /\ l_run.data.report = {}) =>
        l_out.decision \subseteq {"insufficient_evidence"}


BatchRunEnded ==
    lpc = "done" /\ l_run.component = "update_weights_from_feedback" /\ ~l_out.stopped

\* C23: the batch tuner writes the weights store only when the feedback log
\* holds at least min_records records and the run changed a weight value;
\* otherwise (too few records, no warning in the last ten, every triggered
\* value on its cap) the store is not written and holds what it held.
C23_BatchWritesOnlyOnChange ==
    BatchRunEnded =>
        /\ l_out.wrote => /\ Len(l_run.lines) >= l_run.min_records
                          /\ l_out.file_after # l_run.file
        /\ ~l_out.wrote => l_out.file_after = l_run.file

\* a record that carries an irrelevance warning: its score text holds the
\* scorer's irrelevance line or its unrelated-evidence warning
CarriesIrrelevanceWarning(line) ==
    line.score_text \cap (LINE_IRRELEVANCE_SIGNALS \cup WARN_UNRELATED) # {}

IrrelevanceValues(w) ==
    <<Get(w, "irrelevance_penalty_per_hit", 60),
      BatchPenaltyOf(w, "leisure"), BatchPenaltyOf(w, "tourism"),
      BatchPenaltyOf(w, "nightlife")>>

\* C24: the batch tuner raises irrelevance_penalty_per_hit and the three
\* named topic penalties only when one of the last ten feedback records
\* carries an irrelevance warning.
C24_IrrelevanceRaisedOnlyOnWarning ==
    (BatchRunEnded /\ IrrelevanceValues(l_out.file_after.object)
                        # IrrelevanceValues(l_run.file.object)) =>
        \E i \in 1..Len(LastLines(l_run.lines)) :
            CarriesIrrelevanceWarning(LastLines(l_run.lines)[i])


PerRunRunEnded ==
    lpc = "done" /\ l_run.component = "auto_tune_weights"
                 /\ ~Unparseable(l_run.file) /\ l_out.printed # {ERR_ATTRIBUTE}

\* the score rerank_policy gives the evidence item e under the weights object w
ScoreUnder(e, w) == score_item(e.text, e.score, e.doc_key, load_weights(w))

\* C25: the feedback loop is closed: after a per-run tuner run triggered by
\* an irrelevance warning, rerank_policy under the weights it persisted gives
\* an evidence item whose text holds a watch-list term, and whose score was
\* above the floor, a lower score than under the weights before the run.
C25_FeedbackLoopClosed ==
    (PerRunRunEnded /\ l_run.irrelevant) =>
        \A e \in RerankItems :
            LET before == ScoreUnder(e, l_run.file.object)
                after  == ScoreUnder(e, l_out.file_after.object)
                floor  == RNorm(load_weights(l_run.file.object).min_score_floor, 100)
            IN  (e.text \cap Range(WATCH_LIST) # {} /\ RLess(floor, before))
                    => RLess(after, before)


\* C26: a per-run tuner invocation (on a weights file it can parse) writes
\* the weights store and appends exactly one record to its log, the earlier
\* records staying as they were, and the new record's weights_after holds
\* the weights now persisted.
C26_OneRecordPerInvocation ==
    (lpc = "done" /\ l_run.component = "auto_tune_weights" /\ ~Unparseable(l_run.file)) =>
        /\ l_out.wrote
        /\ Len(l_out.log_after) = Len(l_run.log) + 1
        /\ SubSeq(l_out.log_after, 1, Len(l_run.log)) = l_run.log
        /\ l_out.log_after[Len(l_out.log_after)].weights_after = l_out.file_after.object


(***************************************************************************)
(* Properties of the tuning loop (checked under SpecConverge).             *)
(***************************************************************************)
\* every tuned value of the weights object sits on its bound
AtFixedPoint(w) ==
    /\ DocBoostOf(w, "nppf_2024") = 150 /\ DocBoostOf(w, "dap_2020") = 150
    /\ DocBoostOf(w, "csucp_2015") = 80
    /\ \A k \in Range(WATCH_LIST) : TopicPenaltyOf(w, k) = 50
    /\ Get(w, "doc_diversity_target", 2) = 3
    /\ Get(w, "irrelevance_penalty_per_hit", 60) = 150
    /\ \A k \in {"leisure", "tourism", "nightlife"} : BatchPenaltyOf(w, k) = 400

Converged == c_store # {} /\ AtFixedPoint(Content(c_store))

\* C30: the tuning loop converges: when per-run and batch runs that find
\* both warnings go on being made, the weights file comes, after finitely
\* many runs, to hold nppf_2024 = dap_2020 = 1.50, csucp_2015 = 0.80, the
\* watch-list topic_penalty = 0.50, doc_diversity_target = 3,
\* irrelevance_penalty_per_hit = 1.5 and the named topic penalties = 4.0,
\* and holds them from then on.
C30_TuningLoopConverges == <>[]Converged

\* C30 witness: the fixed point reached from a start with no weights entries
\* (the file holds none of the reranker's other keys).
C30_Witness_FixedPointFromDefaults ==
    /\ Converged
    /\ DOMAIN Content(c_store) = {"doc_boost", "topic_penalty", "doc_diversity_target",
                                  "irrelevance_penalty_per_hit", "topic_penalties"}


=============================================================================
